---- MODULE Spec2Model ----
(***************************************************************************)
(* Model of the schema tool chain of MenaceAssetPacker:                    *)
(*   - the schema differ        (src/diff_schemas.py),                     *)
(*   - the extraction validator (src/validate_extraction.py),              *)
(*   - the schema builder       (src/tools/generate_schema.py).            *)
(* Each tool is a batch program: its inputs are drawn in the initial       *)
(* state, and one action models each step of its main routine.             *)
(*                                                                         *)
(* JSON objects / Python dicts are functions (DOMAIN = the keys), lists    *)
(* are sequences, report records are pairs <<level, message>> whose        *)
(* message is the very string the code formats.                            *)
(***************************************************************************)
EXTENDS Integers, Sequences, FiniteSets, TLC

VARIABLES
    \* ---- schema differ (diff_schemas.main) ----
    pc,                \* position in diff_schemas.main
    paths_exist,       \* [old, new]: whether each schema file exists
    old_schema,        \* the loaded old schema.json
    new_schema,        \* the loaded new schema.json
    enum_results,      \* diff_enums(...)
    struct_results,    \* diff_structs(...)
    template_results,  \* diff_templates(...)
    has_critical,      \* main's has_critical flag
    exit_code,         \* main's return value (-1: still running)
    \* ---- extraction validator (validate_extraction.main) ----
    vpc,               \* position in validate_extraction.main
    inputs_exist,      \* [schema, data]: the schema file, the data directory
    schema,            \* the loaded schema.json
    data_dir,          \* the data directory: "<name>.json" |-> the file
    coverage_results,  \* check_template_coverage(...)[0]
    found_types,       \* check_template_coverage(...)[1]
    name_results,      \* check_instance_names(...)
    field_results,     \* check_field_coverage(...)
    type_results,      \* check_type_validation(...)
    fail_count,        \* main's fail_count
    warn_count,        \* main's warn_count
    vexit,             \* the exit status of the run (-1: still running)
    \* tools/generate_schema.py, one run of main
    gpc,               \* the position of the run in main / build_schema
    dump_exists,       \* whether dump_path exists
    content,           \* the dump, as its declarations in file order
    enums,             \* parse_all_enums(content)
    structs,           \* parse_all_structs(content)
    template_names,    \* parse_all_templates(content)
    hierarchy,         \* build_template_hierarchy(content, template_names)
    templates,         \* schema["templates"]
    inheritance,       \* schema["inheritance"]
    embedded_classes,  \* discover_embedded_classes: embedded
    to_process,        \* discover_embedded_classes: the work set
    processed,         \* discover_embedded_classes: the names taken so far
    parse_calls,       \* the names parse_embedded_class was called with, in order
    \* tools/generate_schema.py, one call of classify_field
    cpc,               \* the position of the call
    declared_type,     \* the argument field_type
    known,             \* the arguments [enums, structs, templates]
    classified,        \* the value returned
    gexit,             \* the exit status of the run (-1: still running)
    \* ---- tools/il2cpp-dump-legacy/build_template_hierarchy.py ----
    mpc,               \* position in build_hierarchical_menu
    type_hierarchy,    \* hierarchy: template type |-> base type or None
    extracted_data,    \* the data directory: "<type>.json" |-> the file
    sorted_types,      \* sorted_types, then the part of it still to process
    remaining,         \* the instances of the current type still to process
    menu,              \* menu: path |-> the node at that path
    placement_map,     \* placement_map: name |-> the path it was placed at
    \* ---- tools/extract_conversations.py (main) ----
    spc,               \* position in extract_conversations.main
    argv,              \* sys.argv[1:]
    assets_at,         \* where resources.assets lies under game_dir
    strings_run,       \* how the strings process ends, and what it printed
    all_strings,       \* all_strings
    output_dir,        \* output_dir ("" before it is set)
    output_files,      \* the files of output_dir: name |-> content
    failure,           \* what the run reported when it failed ("" if nothing)
    sexit              \* the exit status of the run (-1: still running)

diffVars == <<pc, paths_exist, old_schema, new_schema, enum_results,
              struct_results, template_results, has_critical, exit_code>>

valVars == <<vpc, inputs_exist, schema, data_dir, coverage_results,
             found_types, name_results, field_results, type_results,
             fail_count, warn_count, vexit>>

discVars == <<embedded_classes, to_process, processed, parse_calls>>

clsVars == <<cpc, declared_type, known, classified>>

genVars == <<gpc, dump_exists, content, enums, structs, template_names,
             hierarchy, templates, inheritance, gexit, discVars, clsVars>>

menuVars == <<mpc, type_hierarchy, extracted_data, sorted_types, remaining,
              menu, placement_map>>

scrapeVars == <<spc, argv, assets_at, strings_run, all_strings, output_dir,
                output_files, failure, sexit>>

toolVars == <<menuVars, scrapeVars>>

vars == <<diffVars, valVars, genVars, toolVars>>

(***************************************************************************)
(* Bounds of the model.                                                    *)
(***************************************************************************)
\* Longest field list of a template drawn for the differ.
MaxFields == 2

\* Most non-abstract templates of a schema drawn for the coverage check.
MaxTemplates == 10

\* Longest instance list of a data file drawn instance by instance.
MaxInstances == 2

(***************************************************************************)
(* Python built-ins used by the tools.                                     *)
(***************************************************************************)
\* Every name the model uses, in code point order (the order of sorted()).
Alphabet ==
    <<"ArmorSlot", "ArmorTemplate", "BaseItemTemplate", "Body", "Damage",
      "DamageInfo", "Head", "HitInfo", "Icon", "ItemATemplate",
      "ItemBTemplate", "ItemCTemplate", "ItemDTemplate", "ItemETemplate",
      "ItemFTemplate", "ItemGTemplate", "ItemHTemplate", "ItemITemplate",
      "ItemJTemplate", "ItemKTemplate", "ItemLTemplate", "Range",
      "WeaponTemplate", "WeaponType">>

Rank(n) == CHOOSE i \in 1..Len(Alphabet) : Alphabet[i] = n

RECURSIVE SortedDesc(_)
\* sorted(S, reverse=True): what Sorted must not be.
SortedDesc(S) ==
    IF S = {} THEN <<>>
    ELSE LET m == CHOOSE x \in S : \A y \in S : Rank(x) >= Rank(y)
         IN  <<m>> \o SortedDesc(S \ {m})

RECURSIVE SortedAsc(_)
SortedAsc(S) ==
    IF S = {} THEN <<>>
    ELSE LET m == CHOOSE x \in S : \A y \in S : Rank(x) <= Rank(y)
         IN  <<m>> \o SortedAsc(S \ {m})

\* sorted(S) of a set of names.
Sorted(S) == SortedAsc(S)

RECURSIVE Concat(_)
\* The concatenation of a sequence of sequences (successive list.append /
\* list.extend calls inside a for loop).
Concat(ss) == IF ss = <<>> THEN <<>> ELSE Head(ss) \o Concat(Tail(ss))

\* [F(x) for x in seq], flattened: the records a for loop appends.
ForEach(seq, F(_)) == Concat([i \in 1..Len(seq) |-> F(seq[i])])

\* [F(x) for x in seq]
Map(seq, F(_)) == [i \in 1..Len(seq) |-> F(seq[i])]

\* [x for x in seq if P(x)]
Filter(seq, P(_)) == SelectSeq(seq, P)

\* any(l == level for l, _ in results)
AnyLevel(results, level) == \E i \in 1..Len(results) : results[i][1] = level

\* sum(1 for l, _ in results if l == level)
CountLevel(results, level) ==
    Cardinality({i \in 1..Len(results) : results[i][1] = level})

\* All sequences over S of length at most n.
SeqUpTo(S, n) == UNION {[1..k -> S] : k \in 0..n}

\* All dicts with keys among K and values in V.
Dicts(K, V) == UNION {[D -> V] : D \in SUBSET K}

(***************************************************************************)
(* diff_schemas.py                                                         *)
(***************************************************************************)
\* {f["name"]: f for f in fields}: a later entry replaces an earlier one of
\* the same name.
FieldDict(fields) ==
    [n \in {fields[i].name : i \in 1..Len(fields)} |->
        fields[CHOOSE i \in 1..Len(fields) :
                  /\ fields[i].name = n
                  /\ \A j \in 1..Len(fields) : fields[j].name = n => j <= i]]

\* An EnumChange that emits its CHG header without testing whether any value
\* was added, removed or changed.
EnumChangeAlways(old_enums, new_enums, name) ==
    LET old_vals == old_enums[name].values
        new_vals == new_enums[name].values
        added_v == DOMAIN new_vals \ DOMAIN old_vals
        removed_v == DOMAIN old_vals \ DOMAIN new_vals
        changed_v == {k \in DOMAIN old_vals \cap DOMAIN new_vals :
                         old_vals[k] # new_vals[k]}
    IN  <<<<"CHG", name \o ": +" \o ToString(Cardinality(added_v))
                   \o " -" \o ToString(Cardinality(removed_v))
                   \o " ~" \o ToString(Cardinality(changed_v))
                   \o " values">>>>
        \o ForEach(Sorted(changed_v), LAMBDA v :
             <<<<"CRIT", "  ~ " \o v \o ": " \o ToString(old_vals[v])
                         \o " -> " \o ToString(new_vals[v])>>>>)

\* The CHG block of one common enum.
EnumChange(old_enums, new_enums, name) ==
    LET old_vals == old_enums[name].values
        new_vals == new_enums[name].values
        added_v == DOMAIN new_vals \ DOMAIN old_vals
        removed_v == DOMAIN old_vals \ DOMAIN new_vals
        changed_v == {k \in DOMAIN old_vals \cap DOMAIN new_vals :
                         old_vals[k] # new_vals[k]}
    IN  IF added_v # {} \/ removed_v # {} \/ changed_v # {}
        THEN <<<<"CHG", name \o ": +" \o ToString(Cardinality(added_v))
                        \o " -" \o ToString(Cardinality(removed_v))
                        \o " ~" \o ToString(Cardinality(changed_v))
                        \o " values">>>>
             \o ForEach(Sorted(added_v), LAMBDA v :
                  <<<<"INFO", "  + " \o v \o " = " \o ToString(new_vals[v])>>>>)
             \o ForEach(Sorted(removed_v), LAMBDA v :
                  <<<<"INFO", "  - " \o v \o " = " \o ToString(old_vals[v])>>>>)
             \o ForEach(Sorted(changed_v), LAMBDA v :
                  <<<<"CRIT", "  ~ " \o v \o ": " \o ToString(old_vals[v])
                              \o " -> " \o ToString(new_vals[v])>>>>)
        ELSE <<>>

diff_enums(old_enums, new_enums) ==
    LET old_names == DOMAIN old_enums
        new_names == DOMAIN new_enums
        added == new_names \ old_names
        removed == old_names \ new_names
        common == old_names \cap new_names
    IN  (IF added # {}
         THEN <<<<"ADD", ToString(Cardinality(added)) \o " new enums">>>>
              \o ForEach(Sorted(added), LAMBDA name :
                   <<<<"INFO", "  + " \o name \o " ("
                        \o ToString(Cardinality(DOMAIN new_enums[name].values))
                        \o " values)">>>>)
         ELSE <<>>)
        \o
        (IF removed # {}
         THEN <<<<"DEL", ToString(Cardinality(removed)) \o " removed enums">>>>
              \o ForEach(Sorted(removed), LAMBDA name :
                   <<<<"INFO", "  - " \o name>>>>)
         ELSE <<>>)
        \o
        ForEach(Sorted(common), LAMBDA name :
            EnumChange(old_enums, new_enums, name))

\* offset_changed of one common template: (fname, old offset, new offset).
OffsetChanged(old_fields, new_fields) ==
    Filter(Sorted(DOMAIN old_fields \cap DOMAIN new_fields), LAMBDA fname :
        old_fields[fname].offset # new_fields[fname].offset)

\* type_changed of one common template.
TypeChanged(old_fields, new_fields) ==
    Filter(Sorted(DOMAIN old_fields \cap DOMAIN new_fields), LAMBDA fname :
        old_fields[fname].type # new_fields[fname].type)

\* The CHG block of one common template.
TemplateChange(old_templates, new_templates, name) ==
    LET old_fields == FieldDict(old_templates[name].fields)
        new_fields == FieldDict(new_templates[name].fields)
        added_f == DOMAIN new_fields \ DOMAIN old_fields
        removed_f == DOMAIN old_fields \ DOMAIN new_fields
        offset_changed == OffsetChanged(old_fields, new_fields)
        type_changed == TypeChanged(old_fields, new_fields)
    IN  IF \/ added_f # {} \/ removed_f # {}
           \/ offset_changed # <<>> \/ type_changed # <<>>
        THEN <<<<"CHG", name \o ":">>>>
             \o ForEach(Sorted(added_f), LAMBDA f :
                  <<<<"INFO", "  + " \o f \o ": " \o new_fields[f].type
                              \o " @ " \o new_fields[f].offset>>>>)
             \o ForEach(Sorted(removed_f), LAMBDA f :
                  <<<<"INFO", "  - " \o f \o ": " \o old_fields[f].type
                              \o " @ " \o old_fields[f].offset>>>>)
             \o ForEach(offset_changed, LAMBDA fname :
                  <<<<"CRIT", "  OFFSET " \o fname \o ": "
                              \o old_fields[fname].offset \o " -> "
                              \o new_fields[fname].offset>>>>)
             \o ForEach(type_changed, LAMBDA fname :
                  <<<<"WARN", "  TYPE " \o fname \o ": "
                              \o old_fields[fname].type \o " -> "
                              \o new_fields[fname].type>>>>)
        ELSE <<>>

RECURSIVE SumSeq(_)
SumSeq(s) == IF s = <<>> THEN 0 ELSE Head(s) + SumSeq(Tail(s))

diff_templates(old_templates, new_templates) ==
    LET old_names == DOMAIN old_templates
        new_names == DOMAIN new_templates
        added == new_names \ old_names
        removed == old_names \ new_names
        common == old_names \cap new_names
        offset_changes ==
            SumSeq(Map(Sorted(common), LAMBDA name :
                Len(OffsetChanged(FieldDict(old_templates[name].fields),
                                  FieldDict(new_templates[name].fields)))))
        results ==
            (IF added # {}
             THEN <<<<"ADD", ToString(Cardinality(added)) \o " new templates">>>>
                  \o ForEach(Sorted(added), LAMBDA name :
                       <<<<"INFO", "  + " \o name \o " ("
                            \o ToString(Len(new_templates[name].fields))
                            \o " fields)">>>>)
             ELSE <<>>)
            \o
            (IF removed # {}
             THEN <<<<"DEL", ToString(Cardinality(removed))
                             \o " removed templates">>>>
                  \o ForEach(Sorted(removed), LAMBDA name :
                       <<<<"INFO", "  - " \o name>>>>)
             ELSE <<>>)
            \o
            ForEach(Sorted(common), LAMBDA name :
                TemplateChange(old_templates, new_templates, name))
    IN  IF offset_changes # 0
        THEN <<<<"CRIT", "*** " \o ToString(offset_changes)
                 \o " OFFSET CHANGES - extraction code must be regenerated ***">>>>
             \o results
        ELSE results

diff_structs(old_structs, new_structs) ==
    LET old_names == DOMAIN old_structs
        new_names == DOMAIN new_structs
        added == new_names \ old_names
        removed == old_names \ new_names
    IN  (IF added # {}
         THEN <<<<"ADD", ToString(Cardinality(added)) \o " new structs">>>>
              \o ForEach(Sorted(added), LAMBDA name :
                   <<<<"INFO", "  + " \o name>>>>)
         ELSE <<>>)
        \o
        (IF removed # {}
         THEN <<<<"DEL", ToString(Cardinality(removed)) \o " removed structs">>>>
              \o ForEach(Sorted(removed), LAMBDA name :
                   <<<<"INFO", "  - " \o name>>>>)
         ELSE <<>>)
        \o
        ForEach(Sorted(old_names \cap new_names), LAMBDA name :
            IF old_structs[name].size_bytes # new_structs[name].size_bytes
            THEN <<<<"CRIT", name \o ": size changed "
                     \o ToString(old_structs[name].size_bytes) \o " -> "
                     \o ToString(new_structs[name].size_bytes)>>>>
            ELSE <<>>)

(***************************************************************************)
(* validate_extraction.py                                                  *)
(*                                                                         *)
(* A JSON value is a record [t, s, n, e]: t is its Python type, s its      *)
(* str(), and a number is n * 10^e (an int beyond 32 bits is written with  *)
(* e >= 10).  An instance is [isdict, items]; a data file is               *)
(* [kind, instances] with kind "list", "object" (valid JSON that is not a  *)
(* list) or "invalid" (json.JSONDecodeError / OSError on reading it).      *)
(***************************************************************************)
VStr(str) == [t |-> "str", s |-> str, n |-> 0, e |-> 0]
VInt(i) == [t |-> "int", s |-> ToString(i), n |-> i, e |-> 0]
VBigInt(m, ex, str) == [t |-> "int", s |-> str, n |-> m, e |-> ex]
VFloat(m, ex, str) == [t |-> "float", s |-> str, n |-> m, e |-> ex]
VBool(b) == [t |-> "bool", s |-> IF b THEN "True" ELSE "False",
             n |-> IF b THEN 1 ELSE 0, e |-> 0]
VNull == [t |-> "NoneType", s |-> "None", n |-> 0, e |-> 0]

Dict(items) == [isdict |-> TRUE, items |-> items]
NotADict(v) == [isdict |-> FALSE, items |-> v]

ListFile(instances) == [kind |-> "list", instances |-> instances]
ObjectFile == [kind |-> "object", instances |-> <<>>]
InvalidFile == [kind |-> "invalid", instances |-> <<>>]

\* bool(v)
Truthy(v) ==
    CASE v.t = "str" -> v.s # ""
      [] v.t = "NoneType" -> FALSE
      [] OTHER -> v.n # 0

\* isinstance(v, int): bool is a subclass of int.
IsInt(v) == v.t \in {"int", "bool"}

\* isinstance(v, (int, float))
IsNumber(v) == v.t \in {"int", "float", "bool"}

\* isinstance(v, bool)
IsBool(v) == v.t = "bool"

Abs(i) == IF i < 0 THEN -i ELSE i

RECURSIVE Pow10(_)
Pow10(k) == IF k = 0 THEN 1 ELSE 10 * Pow10(k - 1)

\* abs(v) > 10^p, for a number n * 10^e with |n| < 2^31 <= 10^10.
MagnitudeExceeds(v, p) ==
    /\ v.n # 0
    /\ IF v.e >= p THEN (v.e > p \/ Abs(v.n) > 1)
       ELSE /\ p - v.e <= 9
            /\ Abs(v.n) > Pow10(p - v.e)

\* lo <= v <= hi for an int v (0 <= lo, hi < 10^9).
IntInRange(v, lo, hi) == v.e = 0 /\ lo <= v.n /\ v.n <= hi

\* inst.get(key, default)
Get(inst, key, default) ==
    IF key \in DOMAIN inst.items THEN inst.items[key] ELSE default

\* str.startswith("unknown_"), on the names of the model.
StartsWithUnknown(v) == v.s \in {"unknown_0", "unknown_1"}

\* The exponent of garbage_threshold = 1e10.
GarbageExponent == 10

\* instances[:50] of check_type_validation.
MaxChecked == 50

\* sorted(missing)[:5] of check_field_coverage.
MaxMissingShown == 5

\* errors[:5] of check_type_validation.
MaxErrorsShown == 5

\* instances[:5] of the has_data test.
MaxProbed == 5

PrefixAll(seq, n) == seq

\* seq[:n]
Prefix(seq, n) == SubSeq(seq, 1, IF Len(seq) < n THEN Len(seq) ELSE n)

\* f"{x:.0f}" of x = num / den * 100: the nearest integer, ties to even.
Percent0f(num, den) ==
    LET q == (num * 100) \div den
        r == (num * 100) % den
    IN  ToString(IF 2 * r > den \/ (2 * r = den /\ q % 2 = 1)
                 THEN q + 1 ELSE q)

\* The order in which a dict comprehension over `fields` holds its keys: each
\* name at the position of its first entry.
KeyOrder(fields) ==
    LET firsts == SelectSeq([i \in 1..Len(fields) |-> i], LAMBDA i :
                      \A j \in 1..(i - 1) : fields[j].name # fields[i].name)
    IN  [k \in 1..Len(firsts) |-> fields[firsts[k]].name]

\* A check_template_coverage that counts the abstract templates as expected.
check_template_coverage_all(sch, dir) ==
    LET expected == DOMAIN sch.templates
        found == {t \in expected : t \in DOMAIN dir}
        missing == expected \ found
        level == IF missing = {} THEN "PASS"
                 ELSE IF Cardinality(found) * 100 >= 70 * Cardinality(expected)
                      THEN "WARN" ELSE "FAIL"
    IN  [results |-> <<<<level, ToString(Cardinality(found)) \o "/"
                          \o ToString(Cardinality(expected))
                          \o " types have output (0 abstract, expected no output)">>>>
                      \o ForEach(Sorted(missing), LAMBDA m :
                           <<<<"INFO", "  Missing: " \o m>>>>),
         found |-> found]

\* check_template_coverage: [results, found].  pct >= 70 is decided on the
\* exact ratio (the float len(found) / len(expected) * 100 agrees with it).
check_template_coverage(sch, dir) ==
    LET abstract == {t \in DOMAIN sch.templates : sch.templates[t].is_abstract}
        expected == DOMAIN sch.templates \ abstract
        found == {t \in expected : t \in DOMAIN dir}
        missing == expected \ found
        level == IF missing = {} THEN "PASS"
                 ELSE IF Cardinality(found) * 100 >= 70 * Cardinality(expected)
                      THEN "WARN" ELSE "FAIL"
    IN  [results |-> <<<<level, ToString(Cardinality(found)) \o "/"
                          \o ToString(Cardinality(expected))
                          \o " types have output ("
                          \o ToString(Cardinality(abstract))
                          \o " abstract, expected no output)">>>>
                      \o ForEach(Sorted(missing), LAMBDA m :
                           <<<<"INFO", "  Missing: " \o m>>>>),
         found |-> found]

\* The generator expression of check_instance_names raises AttributeError
\* when an instance has a truthy name that is not a string.
NameRaises(inst) ==
    /\ inst.isdict
    /\ Truthy(Get(inst, "name", VNull))
    /\ Get(inst, "name", VNull).t # "str"

IsNamed(inst) ==
    /\ inst.isdict
    /\ Truthy(Get(inst, "name", VNull))
    /\ ~StartsWithUnknown(Get(inst, "name", VNull))

\* Whether check_instance_names raises on the files of found_types.
InstanceNamesRaises(dir, found) ==
    \E t \in found :
        /\ dir[t].kind = "list"
        /\ \E i \in 1..Len(dir[t].instances) : NameRaises(dir[t].instances[i])

\* The record check_instance_names appends for one type.
InstanceNamesOf(dir, tname) ==
    LET file == dir[tname]
        total == Len(file.instances)
        named == Cardinality({i \in 1..total : IsNamed(file.instances[i])})
        level == IF named = total THEN "PASS"
                 ELSE IF named * 100 >= 50 * total THEN "WARN" ELSE "FAIL"
    IN  IF file.kind = "invalid"
        THEN <<<<"FAIL", tname \o ": Could not read JSON">>>>
        ELSE IF file.kind = "object" THEN <<<<"WARN", tname \o ": Not a list">>>>
        ELSE IF total = 0 THEN <<<<"WARN", tname \o ": Empty file">>>>
        ELSE <<<<level, tname \o ": " \o ToString(named) \o "/"
                 \o ToString(total) \o " named ("
                 \o Percent0f(named, total) \o "%)">>>>

check_instance_names(dir, found) ==
    ForEach(Sorted(found), LAMBDA tname : InstanceNamesOf(dir, tname))

ComplexCategories == {"collection", "unity_asset", "localization", "unknown"}

\* The representative instance of check_field_coverage, as a sequence of at
\* most one instance (empty: sample is None).
Sample(instances) ==
    LET named == SelectSeq(instances, LAMBDA inst :
                     inst.isdict /\ Truthy(Get(inst, "name", VNull)))
    IN  IF named # <<>> THEN <<named[1]>>
        ELSE IF instances[1].isdict THEN <<instances[1]>> ELSE <<>>

\* The records check_field_coverage appends for one type.
FieldCoverageOf(sch, dir, tname) ==
    LET fields == sch.templates[tname].fields
        simple == SelectSeq(fields, LAMBDA f : f.category \notin ComplexCategories)
        expected_fields == {simple[i].name : i \in 1..Len(simple)}
        skipped == Len(fields) - Len(simple)
        file == dir[tname]
    IN  IF file.kind # "list" \/ file.instances = <<>> THEN <<>>
        ELSE IF Sample(file.instances) = <<>> THEN <<>>
        ELSE LET sample == Sample(file.instances)[1]
                 json_keys == DOMAIN sample.items \ {"name", "_template_type"}
                 present == expected_fields \cap json_keys
                 missing == expected_fields \ json_keys
                 total == Cardinality(expected_fields)
                 found_count == Cardinality(present)
                 suffix == IF skipped # 0
                           THEN " (" \o ToString(skipped) \o " complex skipped)"
                           ELSE ""
                 level == IF found_count * 100 >= 90 * total THEN "PASS"
                          ELSE IF found_count * 100 >= 60 * total THEN "WARN"
                          ELSE "FAIL"
             IN  IF total = 0 THEN <<>>
                 ELSE <<<<level, tname \o ": " \o ToString(found_count) \o "/"
                          \o ToString(total) \o " fields" \o suffix>>>>
                      \o (IF missing # {} /\ level # "PASS"
                          THEN ForEach(Prefix(Sorted(missing), MaxMissingShown),
                                 LAMBDA m : <<<<"INFO", "  Missing: " \o m>>>>)
                          ELSE <<>>)

check_field_coverage(sch, dir, found) ==
    ForEach(Sorted(found), LAMBDA tname : FieldCoverageOf(sch, dir, tname))

\* type_checks.get(ftype): whether a checker exists, and what it accepts.
CheckedTypes ==
    {"int", "Int32", "short", "Int16", "long", "Int64", "byte", "Byte",
     "float", "Single", "double", "Double", "bool", "Boolean"}

TypeCheck(ftype, v) ==
    CASE ftype \in {"int", "Int32", "short", "Int16", "long", "Int64"} -> IsInt(v)
      [] ftype \in {"byte", "Byte"} -> IsInt(v) /\ IntInRange(v, 0, 255)
      [] ftype \in {"float", "Single", "double", "Double"} -> IsNumber(v)
      [] ftype \in {"bool", "Boolean"} -> IsBool(v)

\* The declared types the garbage float check applies to.
GarbageChecked == {"float", "Single"}

\* f"{val:.3e}" of the numbers of the model.
Sci3(v) ==
    CASE v.s = "2.03e+32" -> "2.030e+32"
      [] v.s = "20000000000" -> "2.000e+10"
      [] OTHER -> v.s

\* The errors one instance adds, field by field.
InstanceErrors(tname, fields, inst) ==
    LET field_map == FieldDict(fields)
        inst_name == Get(inst, "name", VStr("?")).s
    IN  IF ~inst.isdict THEN <<>>
        ELSE ForEach(KeyOrder(fields), LAMBDA fname :
               IF fname \notin DOMAIN inst.items THEN <<>>
               ELSE LET val == inst.items[fname]
                        ftype == field_map[fname].type
                    IN  (IF ftype \in CheckedTypes /\ ~TypeCheck(ftype, val)
                         THEN <<tname \o "." \o fname \o "[" \o inst_name
                                \o "]: expected " \o ftype \o ", got "
                                \o val.t \o "=" \o val.s>>
                         ELSE <<>>)
                        \o
                        (IF /\ ftype \in GarbageChecked
                            /\ IsNumber(val)
                            /\ MagnitudeExceeds(val, GarbageExponent)
                         THEN <<tname \o "." \o fname \o "[" \o inst_name
                                \o "]: expected float, got " \o Sci3(val)
                                \o " (garbage - wrong offset?)">>
                         ELSE <<>>))

\* The records check_type_validation appends for one type.
TypeValidationOf(sch, dir, tname) ==
    LET file == dir[tname]
        fields == sch.templates[tname].fields
        errors == ForEach(Prefix(file.instances, MaxChecked), LAMBDA inst :
                      InstanceErrors(tname, fields, inst))
        shown == Prefix(file.instances, MaxProbed)
        has_data == \E i \in 1..Len(shown) :
                        shown[i].isdict /\ Cardinality(DOMAIN shown[i].items) > 1
    IN  IF file.kind # "list" THEN <<>>
        ELSE IF errors # <<>>
        THEN <<<<"FAIL", tname \o ": " \o ToString(Len(errors))
                 \o " type errors">>>>
             \o ForEach(Prefix(errors, MaxErrorsShown), LAMBDA err :
                  <<<<"INFO", "  " \o err>>>>)
             \o (IF Len(errors) > MaxErrorsShown
                 THEN <<<<"INFO", "  ... and "
                          \o ToString(Len(errors) - MaxErrorsShown) \o " more">>>>
                 ELSE <<>>)
        ELSE IF has_data
        THEN <<<<"PASS", tname \o ": all values match expected types">>>>
        ELSE <<>>

check_type_validation(sch, dir, found) ==
    ForEach(Sorted(found), LAMBDA tname : TypeValidationOf(sch, dir, tname))

(***************************************************************************)
(* Inputs of the differ.  One grain at a time is drawn from its full       *)
(* bounded universe while the other two are drawn from a few              *)
(* representative pairs (identical / critically changed).                  *)
(***************************************************************************)

\* parse_all_enums keeps only enums with at least one value.
EnumDefs ==
    {[underlying_type |-> "int", values |-> v] :
        v \in Dicts({"Body", "Head"}, {0, 1}) \ {<<>>}}

\* "ArmorSlot" ranges over every definition, "WeaponType" over two.
EnumMaps ==
    {e \in Dicts({"ArmorSlot", "WeaponType"}, EnumDefs) :
        "WeaponType" \in DOMAIN e =>
            /\ DOMAIN e["WeaponType"].values = {"Head"}}

StructMaps == Dicts({"DamageInfo", "HitInfo"}, [size_bytes : {8, 12}])

TemplateNames == {"ArmorTemplate", "WeaponTemplate"}
Offsets == {"0x10", "0x20", "0x30"}

\* The field entries the differ reads (name, type, offset).
FieldDefs ==
    {[name |-> "Damage", type |-> "float", offset |-> "0x10"],
     [name |-> "Damage", type |-> "float", offset |-> "0x20"],
     [name |-> "Damage", type |-> "int", offset |-> "0x10"],
     [name |-> "Range", type |-> "float", offset |-> "0x20"],
     [name |-> "Range", type |-> "float", offset |-> "0x30"]}

FieldLists == SeqUpTo(FieldDefs, MaxFields)

\* "WeaponTemplate" ranges over every field list, "ArmorTemplate" over
\* two one-field lists.
TemplateMaps ==
    {t \in Dicts(TemplateNames, [fields : FieldLists]) :
        "ArmorTemplate" \in DOMAIN t =>
            /\ Len(t["ArmorTemplate"].fields) = 1
            /\ t["ArmorTemplate"].fields[1].name = "Range"}

Enums0 ==
    [n \in {"ArmorSlot"} |->
        [underlying_type |-> "int", values |-> [v \in {"Head"} |-> 0]]]
Enums1 ==
    [n \in {"ArmorSlot"} |->
        [underlying_type |-> "int", values |-> [v \in {"Head"} |-> 1]]]
Structs0 == [n \in {"DamageInfo"} |-> [size_bytes |-> 8]]
Structs1 == [n \in {"DamageInfo"} |-> [size_bytes |-> 12]]
Templates0 ==
    [n \in {"WeaponTemplate"} |->
        [fields |-> <<[name |-> "Damage", type |-> "float", offset |-> "0x10"]>>]]
Templates1 ==
    [n \in {"WeaponTemplate"} |->
        [fields |-> <<[name |-> "Damage", type |-> "float", offset |-> "0x20"]>>]]

EnumStubPairs == {<<Enums0, Enums0>>, <<Enums0, Enums1>>}
StructStubPairs == {<<Structs0, Structs0>>, <<Structs0, Structs1>>}
TemplateStubPairs == {<<Templates0, Templates0>>, <<Templates0, Templates1>>}

Schema(e, s, t) == [enums |-> e, structs |-> s, templates |-> t]

\* The pair of schema files one run of the differ is given: both maps of one
\* grain drawn from its universe with the other grains unchanged, or every
\* grain drawn from its representative pairs.
InputPair(o, n) ==
    \/ \E e1 \in EnumMaps, e2 \in EnumMaps :
          /\ o = Schema(e1, Structs0, Templates0)
          /\ n = Schema(e2, Structs0, Templates0)
    \/ \E s1 \in StructMaps, s2 \in StructMaps :
          /\ o = Schema(Enums0, s1, Templates0)
          /\ n = Schema(Enums0, s2, Templates0)
    \/ \E t1 \in TemplateMaps, t2 \in TemplateMaps :
          /\ o = Schema(Enums0, Structs0, t1)
          /\ n = Schema(Enums0, Structs0, t2)
    \/ \E e \in EnumStubPairs, s \in StructStubPairs, t \in TemplateStubPairs :
          /\ o = Schema(e[1], s[1], t[1])
          /\ n = Schema(e[2], s[2], t[2])

InitDiff ==
    /\ pc = "start"
    /\ \/ /\ paths_exist = [old |-> TRUE, new |-> TRUE]
          /\ InputPair(old_schema, new_schema)
       \/ /\ paths_exist \in [{"old", "new"} -> BOOLEAN]
          /\ ~(paths_exist.old /\ paths_exist.new)
          /\ old_schema = Schema(Enums0, Structs0, Templates0)
          /\ new_schema = Schema(Enums0, Structs0, Templates0)
    /\ enum_results = <<>>
    /\ struct_results = <<>>
    /\ template_results = <<>>
    /\ has_critical = FALSE
    /\ exit_code = -1

\* main, lines 184-187: a missing schema file ends the run with 1.
MainNotFound ==
    /\ pc = "start"
    /\ ~(paths_exist.old /\ paths_exist.new)
    /\ pc' = "done"
    /\ exit_code' = 1
    /\ UNCHANGED <<valVars, genVars, toolVars>>
    /\ UNCHANGED <<paths_exist, old_schema, new_schema, enum_results,
                   struct_results, template_results, has_critical>>

\* main, lines 200-204.
MainEnums ==
    /\ pc = "start"
    /\ paths_exist.old /\ paths_exist.new
    /\ enum_results' = diff_enums(old_schema.enums, new_schema.enums)
    /\ has_critical' = (has_critical \/ AnyLevel(enum_results', "CRIT"))
    /\ pc' = "enums"
    /\ UNCHANGED <<valVars, genVars, toolVars>>
    /\ UNCHANGED <<paths_exist, old_schema, new_schema, struct_results,
                   template_results, exit_code>>

\* main, lines 206-210.
MainStructs ==
    /\ pc = "enums"
    /\ struct_results' = diff_structs(old_schema.structs, new_schema.structs)
    /\ has_critical' = (has_critical \/ AnyLevel(struct_results', "CRIT"))
    /\ pc' = "structs"
    /\ UNCHANGED <<valVars, genVars, toolVars>>
    /\ UNCHANGED <<paths_exist, old_schema, new_schema, enum_results,
                   template_results, exit_code>>

\* main, lines 212-216.
MainTemplates ==
    /\ pc = "structs"
    /\ template_results' =
           diff_templates(old_schema.templates, new_schema.templates)
    /\ has_critical' = (has_critical \/ AnyLevel(template_results', "CRIT"))
    /\ pc' = "templates"
    /\ UNCHANGED <<valVars, genVars, toolVars>>
    /\ UNCHANGED <<paths_exist, old_schema, new_schema, enum_results,
                   struct_results, exit_code>>

\* main, lines 226-231.
MainSummary ==
    /\ pc = "templates"
    /\ exit_code' = IF has_critical THEN 2 ELSE 0
    /\ pc' = "done"
    /\ UNCHANGED <<valVars, genVars, toolVars>>
    /\ UNCHANGED <<paths_exist, old_schema, new_schema, enum_results,
                   struct_results, template_results, has_critical>>

(***************************************************************************)
(* Inputs of the validator.                                                *)
(***************************************************************************)
ItemName(i) ==
    "Item" \o <<"A", "B", "C", "D", "E", "F", "G", "H", "I", "J", "K", "L">>[i]
           \o "Template"

SchemaField(name, type, category) ==
    [name |-> name, type |-> type, offset |-> "0x10", category |-> category]

Template(abstract, fields) ==
    [base_class |-> "DataTemplate", is_abstract |-> abstract, fields |-> fields]

DamageField == SchemaField("Damage", "float", "primitive")

Sword == VStr("sword")
Fine == VFloat(155, -1, "15.5")
Garbage == VFloat(203, 30, "2.03e+32")

\* {"name": "sword", "Damage": 15.5}
GoodInstance == Dict([k \in {"name", "Damage"} |->
                        IF k = "name" THEN Sword ELSE Fine])

\* {"name": "sword", "Damage": 2.03e+32}
GarbageInstance == Dict([k \in {"name", "Damage"} |->
                           IF k = "name" THEN Sword ELSE Garbage])

GoodFile == ListFile(<<GoodInstance>>)

\* Coverage: n concrete templates, data files for some of them, and possibly
\* an abstract template with or without a data file of its own.
CoverageInput(sch, dir) ==
    \E n \in 0..MaxTemplates :
    \E have \in SUBSET {ItemName(i) : i \in 1..n} :
    \E abstract \in SUBSET {"BaseItemTemplate"} :
    \E extra \in SUBSET abstract :
        /\ sch = [templates |->
                    [t \in {ItemName(i) : i \in 1..n} \cup abstract |->
                        Template(t \in abstract, <<DamageField>>)]]
        /\ dir = [t \in have \cup extra |-> GoodFile]

\* The values a data file may record for a field.
Values ==
    {VInt(5), VInt(300), VInt(-1), VBigInt(2, 10, "20000000000"), Fine, Garbage,
     VFloat(1, 10, "10000000000.0"), VBool(TRUE), VStr("x"), VNull}

\* The values a data file may record as an instance name.
NameValues == {Sword, VStr("unknown_0"), VStr(""), VInt(5), VNull}

\* The declared types of the field, with the category the builder gives them.
DeclaredTypes ==
    {<<"float", "primitive">>, <<"Single", "primitive">>,
     <<"double", "primitive">>, <<"Double", "primitive">>,
     <<"int", "primitive">>, <<"byte", "primitive">>,
     <<"short", "primitive">>, <<"Int16", "primitive">>,
     <<"bool", "primitive">>, <<"string", "string">>}

\* Every mapping with an optional name and an optional Damage entry.
ValueInstances ==
    {Dict(items) :
        items \in UNION {[K -> Values \cup NameValues] :
                            K \in SUBSET {"name", "Damage"}}}

\* Values: one template with one field of any declared type, and a file of
\* one instance recording any value for it.
ValueInput(sch, dir) ==
    \E ty \in DeclaredTypes :
    \E inst \in ValueInstances \cup {NotADict(VInt(7))} :
        /\ inst.isdict => \A k \in DOMAIN inst.items :
              inst.items[k] \in (IF k = "name" THEN NameValues ELSE Values)
        /\ sch = [templates |->
                    [t \in {"WeaponTemplate"} |->
                        Template(FALSE, <<SchemaField("Damage", ty[1], ty[2])>>)]]
        /\ dir = [t \in {"WeaponTemplate"} |-> ListFile(<<inst>>)]

\* The instances of the files drawn instance by instance.
ListInstances ==
    {NotADict(VInt(7))} \cup
    {Dict(items) :
        items \in
            {f \in UNION {[K -> {Sword, VStr("unknown_0"), VInt(5), Fine, Garbage}] :
                             K \in SUBSET {"name", "Damage", "Range"}} :
                /\ "name" \in DOMAIN f => f["name"].t \in {"str", "int"}
                /\ "Damage" \in DOMAIN f => f["Damage"].t = "float"
                /\ "Range" \in DOMAIN f => f["Range"] = Fine}}

WeaponFields ==
    <<DamageField, SchemaField("Range", "float", "primitive"),
      SchemaField("Icon", "Sprite", "unity_asset")>>

\* Files: two templates; the file of one is invalid JSON, not a list, or a
\* list of at most MaxInstances instances, the file of the other is good,
\* invalid or missing.
FileInput(sch, dir) ==
    \E file \in {InvalidFile, ObjectFile}
                \cup {ListFile(l) : l \in SeqUpTo(ListInstances, MaxInstances)} :
    \E other \in SUBSET {GoodFile, InvalidFile} :
        /\ Cardinality(other) <= 1
        /\ sch = [templates |->
                    [t \in {"ArmorTemplate", "WeaponTemplate"} |->
                        Template(FALSE, IF t = "WeaponTemplate" THEN WeaponFields
                                        ELSE <<DamageField>>)]]
        /\ dir = [t \in {"WeaponTemplate"}
                        \cup {u \in {"ArmorTemplate"} : other # {}} |->
                    IF t = "WeaponTemplate" THEN file
                    ELSE CHOOSE f \in other : TRUE]

\* Long files: good instances followed by one that records a garbage float,
\* at position MaxChecked or MaxChecked + 1.
LongInput(sch, dir) ==
    \E k \in {MaxChecked - 1, MaxChecked} :
    \E last \in {GoodInstance, GarbageInstance} :
        /\ sch = [templates |->
                    [t \in {"WeaponTemplate"} |-> Template(FALSE, <<DamageField>>)]]
        /\ dir = [t \in {"WeaponTemplate"} |->
                    ListFile([i \in 1..k |-> GoodInstance] \o <<last>>)]

InitVal ==
    /\ vpc = "start"
    /\ \/ /\ inputs_exist = [schema |-> TRUE, data |-> TRUE]
          /\ \/ CoverageInput(schema, data_dir)
             \/ ValueInput(schema, data_dir)
             \/ FileInput(schema, data_dir)
             \/ LongInput(schema, data_dir)
       \/ /\ inputs_exist \in [{"schema", "data"} -> BOOLEAN]
          /\ ~(inputs_exist.schema /\ inputs_exist.data)
          /\ schema = [templates |-> <<>>]
          /\ data_dir = <<>>
    /\ coverage_results = <<>>
    /\ found_types = {}
    /\ name_results = <<>>
    /\ field_results = <<>>
    /\ type_results = <<>>
    /\ fail_count = 0
    /\ warn_count = 0
    /\ vexit = -1

\* main, lines 258-275: a missing schema file or data directory ends the
\* run with 1.
ValNotFound ==
    /\ vpc = "start"
    /\ ~(inputs_exist.schema /\ inputs_exist.data)
    /\ vpc' = "done"
    /\ vexit' = 1
    /\ UNCHANGED <<diffVars, genVars, toolVars>>
    /\ UNCHANGED <<inputs_exist, schema, data_dir, coverage_results,
                   found_types, name_results, field_results, type_results,
                   fail_count, warn_count>>

\* main, lines 284-292: the coverage check, and the early return when no
\* type has a data file.
ValCoverage ==
    /\ vpc = "start"
    /\ inputs_exist.schema /\ inputs_exist.data
    /\ LET r == check_template_coverage(schema, data_dir)
       IN  /\ coverage_results' = r.results
           /\ found_types' = r.found
           /\ fail_count' = fail_count + CountLevel(r.results, "FAIL")
           /\ warn_count' = warn_count + CountLevel(r.results, "WARN")
           /\ vpc' = IF r.found = {} THEN "done" ELSE "coverage"
           /\ vexit' = IF r.found = {} THEN 2 ELSE vexit
    /\ UNCHANGED <<diffVars, genVars, toolVars>>
    /\ UNCHANGED <<inputs_exist, schema, data_dir, name_results,
                   field_results, type_results>>

\* main, lines 294-298.  An exception check_instance_names raises is caught
\* nowhere: the interpreter prints the traceback and exits with status 1.
ValNames ==
    /\ vpc = "coverage"
    /\ IF InstanceNamesRaises(data_dir, found_types)
       THEN /\ vpc' = "raised"
            /\ vexit' = 1
            /\ UNCHANGED <<name_results, fail_count, warn_count>>
       ELSE /\ name_results' = check_instance_names(data_dir, found_types)
            /\ fail_count' = fail_count + CountLevel(name_results', "FAIL")
            /\ warn_count' = warn_count + CountLevel(name_results', "WARN")
            /\ vpc' = "names"
            /\ UNCHANGED vexit
    /\ UNCHANGED <<diffVars, genVars, toolVars>>
    /\ UNCHANGED <<inputs_exist, schema, data_dir, coverage_results,
                   found_types, field_results, type_results>>

\* main, lines 300-304.
ValFields ==
    /\ vpc = "names"
    /\ field_results' = check_field_coverage(schema, data_dir, found_types)
    /\ fail_count' = fail_count + CountLevel(field_results', "FAIL")
    /\ warn_count' = warn_count + CountLevel(field_results', "WARN")
    /\ vpc' = "fields"
    /\ UNCHANGED <<diffVars, genVars, toolVars>>
    /\ UNCHANGED <<inputs_exist, schema, data_dir, coverage_results,
                   found_types, name_results, type_results, vexit>>

\* main, lines 306-310.
ValTypes ==
    /\ vpc = "fields"
    /\ type_results' = check_type_validation(schema, data_dir, found_types)
    /\ fail_count' = fail_count + CountLevel(type_results', "FAIL")
    /\ warn_count' = warn_count + CountLevel(type_results', "WARN")
    /\ vpc' = "types"
    /\ UNCHANGED <<diffVars, genVars, toolVars>>
    /\ UNCHANGED <<inputs_exist, schema, data_dir, coverage_results,
                   found_types, name_results, field_results, vexit>>

\* main, lines 315-319.
ValOverall ==
    /\ vpc = "types"
    /\ vexit' = IF fail_count > 0 THEN 2 ELSE IF warn_count > 0 THEN 1 ELSE 0
    /\ vpc' = "done"
    /\ UNCHANGED <<diffVars, genVars, toolVars>>
    /\ UNCHANGED <<inputs_exist, schema, data_dir, coverage_results,
                   found_types, name_results, field_results, type_results,
                   fail_count, warn_count>>

(***************************************************************************)
(* tools/generate_schema.py                                                *)
(*                                                                         *)
(* The dump is the sequence of its declarations in file order.  A          *)
(* declaration [kind, name, base, index, empty, fields, values] is the     *)
(* text                                                                    *)
(*     public <kind> <name>[ : <base>][ // TypeDefIndex: <index>]          *)
(*     {                                                                   *)
(*         public <type> <name>; // 0x<offset>        (one line per field) *)
(*         public const <name> <value name> = <int>;  (one line per value) *)
(*         public void .ctor() { }                                         *)
(*     }                                                                   *)
(* with base = "" for no base clause, index = "" for no trailing comment,  *)
(* and empty = TRUE for braces that enclose nothing: "{", newline, "}".    *)
(* A dump declares each name once, and no declared name is the beginning   *)
(* of another declared name.  A declared type is [form, elem]: the plain   *)
(* name elem, the array elem[] or the list List<elem>.                     *)
(***************************************************************************)
NoBase == ""

\* Python's None, for a name.
None == ""

Plain(elem) == [form |-> "plain", elem |-> elem]
Array(elem) == [form |-> "array", elem |-> elem]
List(elem) == [form |-> "list", elem |-> elem]

\* The text of a declared type.
TypeText(ty) ==
    CASE ty.form = "plain" -> ty.elem
      [] ty.form = "array" -> ty.elem \o "[]"
      [] ty.form = "list" -> "List<" \o ty.elem \o ">"

\* field_type.rstrip("[]")
Rstrip(ty) == IF ty.form = "list" THEN TypeText(ty) ELSE ty.elem

\* str.endswith("Template") after at least one character (\w+Template), on
\* the names of the model.
EndsWithTemplate(n) ==
    n \in {"ArmorTemplate", "BaseItemTemplate", "DataTemplate", "WeaponTemplate",
           "itemTemplate"}

\* The names of the model that contain "Uxml".
UxmlNames == {"UxmlTraitsTemplate"}

\* The field names of the model the parsers skip: they start with
\* NativeFieldInfoPtr or Il2Cpp, or contain k__BackingField.
InternalFieldNames ==
    {"NativeFieldInfoPtr_Damage", "Il2CppCache", "Id_k__BackingField"}

\* The names of the model whose first character is not an upper-case letter.
LowerInitial ==
    {"int", "float", "bool", "byte", "short", "long", "double", "string",
     "uint", "itemTemplate"}

\* The names of the model that contain a ".".
DottedNames == {"UnityEngine.Color"}

ClassKinds == <<"class", "abstract class">>

\* The text a pattern "...\n\{\n(.*?)\n\}" captures when its opening brace is
\* that of declaration j, as the field lines in it: a sequence of at most one
\* list (empty: no match).  After the braces of an empty body the next "\n}"
\* is the closing brace of the declaration that follows.
BodyFrom(dump, j) ==
    IF j > Len(dump) THEN <<>>
    ELSE IF ~dump[j].empty THEN <<dump[j].fields>>
    ELSE IF j + 1 <= Len(dump) THEN <<dump[j + 1].fields>>
    ELSE <<>>

\* The declaration whose opening brace "<name>\s.*?\n\{\n" reaches from the
\* header of declaration i: \s takes the newline of a header that ends with
\* the name, and the next "\n{\n" is then that of the following declaration.
BraceAfter(dump, i) ==
    IF dump[i].base # NoBase \/ dump[i].index # "" THEN i ELSE i + 1

\* The captured group of "public <kind> <name>.*?:\s+(\w+)": the base, or
\* else the number of the TypeDefIndex comment.
BaseMatch(decl) ==
    IF decl.base # NoBase THEN decl.base ELSE decl.index

\* The positions of the declarations "public <kind> <name>".
Declared(dump, kind, class_name) ==
    {i \in 1..Len(dump) : dump[i].kind = kind /\ dump[i].name = class_name}

\* The fields parse_class_from_dump keeps, with their offsets rewritten.
KeptFields(lines) ==
    Map(SelectSeq(lines, LAMBDA f :
            ~f.static /\ f.name \notin InternalFieldNames /\ f.offset # "0"),
        LAMBDA f : [type |-> f.type, name |-> f.name,
                    offset |-> "0x" \o f.offset])

\* parse_class_from_dump: a sequence of at most one class_info (empty: None).
parse_class_from_dump(dump, class_name) ==
    LET matches == SelectSeq(ClassKinds, LAMBDA kind :
                       \E i \in Declared(dump, kind, class_name) :
                           BodyFrom(dump, BraceAfter(dump, i)) # <<>>)
    IN  IF matches = <<>> THEN <<>>
        ELSE LET i == CHOOSE i \in Declared(dump, matches[1], class_name) : TRUE
                 class_body == BodyFrom(dump, BraceAfter(dump, i))[1]
                 bases == SelectSeq(ClassKinds, LAMBDA kind :
                              \E k \in Declared(dump, kind, class_name) :
                                  BaseMatch(dump[k]) # "")
             IN  <<[name |-> class_name,
                    base |-> IF bases = <<>> THEN None
                             ELSE BaseMatch(dump[CHOOSE k \in
                                    Declared(dump, bases[1], class_name) : TRUE]),
                    is_abstract |->
                        Declared(dump, "abstract class", class_name) # {},
                    fields |-> KeptFields(class_body)]>>

stop_bases ==
    {"ScriptableObject", "MonoBehaviour", "Object", "SerializedScriptableObject"}

\* collect_all_fields, with the set of names visited so far.
RECURSIVE collect_all_fields(_, _, _)
collect_all_fields(dump, class_name, visited) ==
    IF class_name \in visited THEN <<>>
    ELSE LET class_info == parse_class_from_dump(dump, class_name)
         IN  IF class_info = <<>> THEN <<>>
             ELSE (IF class_info[1].base # None
                      /\ class_info[1].base \notin stop_bases
                   THEN collect_all_fields(dump, class_info[1].base,
                                           visited \cup {class_name})
                   ELSE <<>>)
                  \o class_info[1].fields

\* The chain of get_inheritance_chain before it is reversed.
RECURSIVE ChainFrom(_, _, _)
ChainFrom(chain, current, parents) ==
    IF current \in DOMAIN parents /\ parents[current] # ""
    THEN IF \E k \in 1..Len(chain) : chain[k] = parents[current]
         THEN chain
         ELSE ChainFrom(Append(chain, parents[current]), parents[current], parents)
    ELSE chain

Reversed(seq) == [k \in 1..Len(seq) |-> seq[Len(seq) + 1 - k]]

get_inheritance_chain(class_name, parents) ==
    Reversed(ChainFrom(<<class_name>>, class_name, parents))

PRIMITIVE_TYPES ==
    {"int", "Int32", "float", "Single", "bool", "Boolean", "byte", "Byte",
     "short", "Int16", "long", "Int64", "double", "Double"}

UNITY_ASSET_TYPES ==
    {"Sprite", "Texture2D", "Material", "Mesh", "AudioClip", "AnimationClip",
     "GameObject", "RuntimeAnimatorController"}

LOCALIZATION_TYPES == {"LocalizedLine", "LocalizedMultiLine"}

\* classify_field with the struct test before the enum test: what
\* classify_field must not be.
classify_field_struct_first(field_type, known_enums, known_structs, known_templates) ==
    LET base == Rstrip(field_type)
        Is(category, element) == [category |-> category, element_type |-> element]
    IN  IF base \in PRIMITIVE_TYPES THEN Is("primitive", None)
        ELSE IF base \in {"string", "String"} THEN Is("string", None)
        ELSE IF base \in known_structs THEN Is("struct", None)
        ELSE IF base \in known_enums THEN Is("enum", None)
        ELSE IF base \in LOCALIZATION_TYPES THEN Is("localization", None)
        ELSE IF base \in UNITY_ASSET_TYPES THEN Is("unity_asset", None)
        ELSE IF field_type.form = "list" /\ field_type.elem \notin DottedNames
             THEN Is("collection", field_type.elem)
        ELSE IF field_type.form = "array" THEN Is("collection", base)
        ELSE IF EndsWithTemplate(base) /\ base \in known_templates
             THEN Is("reference", None)
        ELSE IF /\ field_type.form = "plain"
                /\ base \notin LowerInitial
                /\ base \notin DottedNames
             THEN Is("reference", None)
        ELSE Is("unknown", None)

\* classify_field: [category, element_type], element_type None when the code
\* returns None for it.  List<(\w+)> matches no element with a "."; the text
\* of a list type starts with an upper-case letter and contains "<" and ">".
classify_field(field_type, known_enums, known_structs, known_templates) ==
    LET base == Rstrip(field_type)
        Is(category, element) == [category |-> category, element_type |-> element]
    IN  IF base \in PRIMITIVE_TYPES THEN Is("primitive", None)
        ELSE IF base \in {"string", "String"} THEN Is("string", None)
        ELSE IF base \in known_enums THEN Is("enum", None)
        ELSE IF base \in known_structs THEN Is("struct", None)
        ELSE IF base \in LOCALIZATION_TYPES THEN Is("localization", None)
        ELSE IF base \in UNITY_ASSET_TYPES THEN Is("unity_asset", None)
        ELSE IF field_type.form = "list" /\ field_type.elem \notin DottedNames
             THEN Is("collection", field_type.elem)
        ELSE IF field_type.form = "array" THEN Is("collection", base)
        ELSE IF EndsWithTemplate(base) /\ base \in known_templates
             THEN Is("reference", None)
        ELSE IF /\ field_type.form = "plain"
                /\ base \notin LowerInitial
                /\ base \notin DottedNames
             THEN Is("reference", None)
        ELSE Is("unknown", None)

\* The dict a sequence of <<key, value>> pairs builds: the last value of a key.
PairDict(pairs) ==
    [k \in {pairs[i][1] : i \in 1..Len(pairs)} |->
        pairs[CHOOSE i \in 1..Len(pairs) :
                 /\ pairs[i][1] = k
                 /\ \A j \in 1..Len(pairs) : pairs[j][1] = k => j <= i][2]]

\* parse_all_enums, for enum declarations with a body.
parse_all_enums(dump) ==
    LET found == {i \in 1..Len(dump) :
                     dump[i].kind = "enum" /\ dump[i].values # <<>>}
        at(n) == CHOOSE i \in found : dump[i].name = n
        underlying(i) ==
            LET value == SelectSeq(dump[i].fields, LAMBDA f : f.name = "value__")
            IN  IF value = <<>> THEN "int" ELSE TypeText(value[1].type)
    IN  [n \in {dump[i].name : i \in found} |->
            [underlying_type |-> underlying(at(n)),
             values |-> PairDict(dump[at(n)].values)]]

\* int(offset, 16), on the offsets of the model.
HexValue(offset) ==
    CASE offset = "0x0" -> 0
      [] offset = "0x10" -> 16
      [] offset = "0x18" -> 24
      [] offset = "0x20" -> 32
      [] offset = "0x28" -> 40

\* parse_all_structs, for struct declarations with a body and no static
\* namesake of a field.
parse_all_structs(dump) ==
    LET statics(i) == {dump[i].fields[k].name :
                          k \in {j \in 1..Len(dump[i].fields) :
                                    dump[i].fields[j].static}}
        kept(i) == Map(SelectSeq(dump[i].fields, LAMBDA f :
                           /\ ~f.static
                           /\ f.name \notin InternalFieldNames
                           /\ f.name \notin statics(i)),
                       LAMBDA f : [name |-> f.name, type |-> TypeText(f.type),
                                   offset |-> "0x" \o f.offset])
        found == {i \in 1..Len(dump) :
                     dump[i].kind = "struct" /\ kept(i) # <<>>}
        at(n) == CHOOSE i \in found : dump[i].name = n
    IN  [n \in {dump[i].name : i \in found} |->
            [size_bytes |->
                HexValue(kept(at(n))[Len(kept(at(n)))].offset) + 4,
             fields |-> kept(at(n))]]

\* parse_all_templates: the sorted template names.
parse_all_templates(dump) ==
    Sorted({dump[i].name : i \in {k \in 1..Len(dump) :
                /\ \E j \in 1..Len(ClassKinds) : dump[k].kind = ClassKinds[j]
                /\ EndsWithTemplate(dump[k].name)}} \ UxmlNames)

\* build_template_hierarchy: child -> parent.
build_template_hierarchy(dump, names) ==
    LET found == {i \in 1..Len(dump) :
                     /\ \E j \in 1..Len(ClassKinds) : dump[i].kind = ClassKinds[j]
                     /\ EndsWithTemplate(dump[i].name)
                     /\ dump[i].base # NoBase
                     /\ dump[i].name \in names}
        parent(child) == dump[CHOOSE i \in found : dump[i].name = child].base
    IN  [child \in {dump[i].name : i \in found} |->
            IF \/ EndsWithTemplate(parent(child))
               \/ parent(child) \in {"ScriptableObject", "SerializedScriptableObject"}
            THEN parent(child)
            ELSE parent(child)]

\* The entry build_schema makes of a collected field; element_type is None
\* when the entry has no such key.
FieldEntry(f, known_enums, known_structs, known_templates) ==
    LET class == classify_field(f.type, known_enums, known_structs, known_templates)
    IN  [name |-> f.name, type |-> TypeText(f.type), offset |-> f.offset,
         category |-> class.category, element_type |-> class.element_type]

\* The templates loop of build_schema.
BuildTemplates(dump, names, known_enums, known_structs) ==
    LET known_templates == {names[i] : i \in 1..Len(names)}
        parsed == {t \in known_templates : parse_class_from_dump(dump, t) # <<>>}
    IN  [tname \in parsed |->
            [base_class |-> parse_class_from_dump(dump, tname)[1].base,
             is_abstract |-> parse_class_from_dump(dump, tname)[1].is_abstract,
             fields |-> Map(collect_all_fields(dump, tname, {}), LAMBDA f :
                            FieldEntry(f, known_enums, known_structs,
                                       known_templates))]]

\* The inheritance loop of build_schema.
BuildInheritance(names, parents) ==
    [tname \in {names[i] : i \in 1..Len(names)} \cap DOMAIN parents |->
        get_inheritance_chain(tname, parents)]

\* parse_embedded_class: a sequence of at most one class_info (empty: None).
parse_embedded_class(dump, class_name) ==
    LET located == {i \in Declared(dump, "class", class_name) :
                       BodyFrom(dump, BraceAfter(dump, i)) # <<>>}
    IN  IF located = {} THEN <<>>
        ELSE LET i == CHOOSE i \in located : TRUE
                 class_body == BodyFrom(dump, BraceAfter(dump, i))[1]
                 fields == SelectSeq(KeptFields(class_body),
                                     LAMBDA f : f.name # "Parent")
             IN  IF fields = <<>> THEN <<>>
                 ELSE <<[name |-> class_name,
                         base |-> BaseMatch(dump[i]),
                         fields |-> fields]>>

skip_types ==
    {"String", "Object", "Int32", "Single", "Boolean", "Byte", "GameObject",
     "Transform", "Component", "MonoBehaviour", "Sprite", "Texture2D",
     "Material", "AudioClip", "AnimationClip", "ScriptableObject", "Color",
     "Vector2", "Vector3", "Vector4", "Quaternion", "Rect", "Bounds"}

\* discover_embedded_classes, lines 363-369: the work set before the loop.
SeedTypes(tmpl, known_enums, known_structs, known_templates) ==
    UNION {{tmpl[t].fields[i].element_type : i \in 1..Len(tmpl[t].fields)} :
              t \in DOMAIN tmpl}
        \ ({None} \cup known_templates \cup known_structs \cup known_enums
               \cup skip_types)

\* discover_embedded_classes, lines 384-410: the entry of a parsed class.
EmbeddedEntry(class_info, known_enums, known_structs, known_templates) ==
    [base_class |-> class_info.base,
     fields |-> Map(class_info.fields, LAMBDA f :
                    FieldEntry(f, known_enums, known_structs, known_templates))]

\* embedded = {class_name: entry}: what AddEntry must not be.
AddEntryAlone(embedded, class_name, entry) ==
    [n \in {class_name} |-> entry]

\* discover_embedded_classes, lines 407-410: embedded[class_name] = entry.
AddEntry(embedded, class_name, entry) ==
    [n \in DOMAIN embedded \cup {class_name} |->
        IF n = class_name THEN entry ELSE embedded[n]]

\* No nested element type is queued: what QueuedTypes must not be.
QueuedNone(entry, taken, known_enums, known_structs, known_templates) == {}

\* discover_embedded_classes, lines 395-403: the element types an entry adds
\* to the work set, `taken` being the names processed so far.
QueuedTypes(entry, taken, known_enums, known_structs, known_templates) ==
    {entry.fields[i].element_type : i \in 1..Len(entry.fields)}
        \ ({None} \cup known_templates \cup known_structs \cup known_enums
               \cup skip_types \cup taken)

(***************************************************************************)
(* Inputs of the schema generator.                                         *)
(***************************************************************************)
Decl(kind, name, base, index, empty, fields, values) ==
    [kind |-> kind, name |-> name, base |-> base, index |-> index,
     empty |-> empty, fields |-> fields, values |-> values]

\* The line "public <type> <name>; // 0x<offset>".
Line(type, name, offset) ==
    [type |-> type, name |-> name, offset |-> offset, static |-> FALSE]

\* The line "public static <type> <name>; // 0x<offset>", which field_pattern
\* matches nowhere: after the modifier it reads "static" as the type and
\* "<type>" as the name, and then finds no ";".
StaticLine(type, name, offset) ==
    [type |-> type, name |-> name, offset |-> offset, static |-> TRUE]

ClassNames == <<"BaseItemTemplate", "WeaponTemplate", "HitInfo">>

\* The fields a class of the hierarchy and layout dumps declares.
OwnFields(name) ==
    CASE name = "BaseItemTemplate" -> <<Line(Plain("string"), "Title", "10")>>
      [] name = "WeaponTemplate" -> <<Line(Plain("float"), "Damage", "18")>>
      [] name = "HitInfo" -> <<Line(Plain("int"), "Count", "20")>>

\* The orders of n of the three classes in a file.
Orders(n) ==
    {o \in [1..n -> 1..3] : \A a, b \in 1..n : o[a] = o[b] => a = b}

\* Hierarchies: the three classes in any order, with any base each.
HierarchyDump(dump) ==
    \E order \in Orders(3) :
    \E base \in [1..2 ->
                  {NoBase, "BaseItemTemplate", "WeaponTemplate", "HitInfo", "DataTemplate",
                  "ScriptableObject", "MonoBehaviour"}] :
    \E other \in {NoBase, "WeaponTemplate", "MonoBehaviour"} :
    \E kind \in [1..2 -> {"class", "abstract class"}] :
        dump = [k \in 1..3 |->
                  Decl(IF order[k] = 3 THEN "class" ELSE kind[order[k]],
                       ClassNames[order[k]],
                       IF order[k] = 3 THEN other ELSE base[order[k]],
                       "100", FALSE, OwnFields(ClassNames[order[k]]), <<>>)]

\* Layouts: some of the three classes in any order, each with or without the
\* TypeDefIndex comment and with or without a body; the base template has no
\* base, an undeclared one, or the plain class.
LayoutDump(dump) ==
    \E n \in 1..3 :
    \E order \in Orders(n) :
    \E index \in [1..n -> {"", "100"}] :
    \E empty \in [1..n -> BOOLEAN] :
    \E root \in {NoBase, "DataTemplate", "HitInfo"} :
        dump = [k \in 1..n |->
                  Decl(IF order[k] = 1 THEN "abstract class" ELSE "class",
                       ClassNames[order[k]],
                       CASE order[k] = 1 -> root
                         [] order[k] = 2 -> "BaseItemTemplate"
                         [] order[k] = 3 -> NoBase,
                       index[k], empty[k],
                       IF empty[k] THEN <<>> ELSE OwnFields(ClassNames[order[k]]),
                       <<>>)]

\* The field lines a class of the field dumps may declare.
FieldLines ==
    {Line(Plain("float"), "Damage", "18"), Line(Plain("int"), "Damage", "20"),
     Line(Plain("int"), "Count", "0"), Line(List("HitInfo"), "Hits", "28"),
     Line(Plain("WeaponType"), "Kind", "20"),
     StaticLine(Plain("int"), "Instances", "0"),
     Line(Plain("string"), "NativeFieldInfoPtr_Damage", "10")}

BaseLines ==
    {Line(Plain("string"), "Title", "10"), Line(Plain("float"), "Damage", "18"),
     Line(Array("ArmorTemplate"), "Armor", "0")}

WeaponTypeEnum ==
    Decl("enum", "WeaponType", NoBase, "100", FALSE,
         <<Line(Plain("int"), "value__", "0")>>, <<<<"Head", 0>>, <<"Body", 1>>>>)

DamageInfoStruct ==
    Decl("struct", "DamageInfo", NoBase, "100", FALSE,
         <<Line(Plain("float"), "Range", "0"), Line(Plain("int"), "Count", "10")>>,
         <<>>)

\* DamageInfo with a static member declared first.
DamageInfoStatic ==
    Decl("struct", "DamageInfo", NoBase, "100", FALSE,
         <<StaticLine(Plain("DamageInfo"), "Zero", "0")>>
             \o DamageInfoStruct.fields,
         <<>>)

\* Fields: a base template, with or without a base of its own, and a
\* template derived from it with any field lines, followed or not by an enum
\* and a struct.
FieldDump(dump) ==
    \E inherited \in SeqUpTo(BaseLines, MaxFields) :
    \E own \in SeqUpTo(FieldLines, MaxFields) :
    \E root \in {"DataTemplate", NoBase} :
    \E more \in {<<>>, <<WeaponTypeEnum>>, <<WeaponTypeEnum, DamageInfoStruct>>,
                 <<WeaponTypeEnum, DamageInfoStatic>>} :
        dump = <<Decl("abstract class", "BaseItemTemplate", root,
                      "100", FALSE, inherited, <<>>),
                 Decl("class", "WeaponTemplate", "BaseItemTemplate",
                      "100", FALSE, own, <<>>)>> \o more

\* Elements: a template with collection fields, the plain classes HitInfo
\* and Effect, and a class Modifier and an enum WeaponType or not.  The
\* element types refer to themselves, to each other and to undeclared or
\* skipped names.
ElementDump(dump) ==
    LET ElementLines ==
            {Line(List("HitInfo"), "Hits", "28"),
             Line(Array("Effect"), "Effects", "30"),
             Line(List("WeaponType"), "Kinds", "38"),
             Line(List("Sprite"), "Icons", "40")}
        HitInfoBodies ==
            {<<Line(Plain("int"), "Count", "20")>>,
             <<Line(List("Effect"), "Effects", "10")>>,
             <<Line(List("HitInfo"), "Children", "10")>>,
             <<Line(Plain("HitInfo"), "Parent", "10")>>,
             <<Line(List("Modifier"), "Mods", "10"),
               Line(Array("Effect"), "Effects", "18")>>}
        EffectBodies ==
            {<<Line(Plain("float"), "Power", "10")>>,
             <<Line(List("HitInfo"), "Sources", "10")>>,
             <<Line(Array("Modifier"), "Mods", "10")>>,
             <<Line(List("Sprite"), "Icons", "10"),
               Line(List("WeaponType"), "Kinds", "18")>>}
        ModifierBodies ==
            {<<Line(Plain("int"), "Value", "10")>>,
             <<Line(List("Effect"), "Effects", "10")>>,
             <<Line(Array("Modifier"), "Next", "10"),
               Line(List("Missing"), "Lost", "18")>>}
    IN  \E own \in SeqUpTo(ElementLines, MaxFields) :
        \E hit \in HitInfoBodies, effect \in EffectBodies :
        \E index \in {"", "100"} :
        \E modifier \in {<<>>} \cup
                {<<Decl("class", "Modifier", NoBase, "100", FALSE, b, <<>>)>> :
                    b \in ModifierBodies} :
        \E more \in {<<>>, <<WeaponTypeEnum>>} :
            dump = <<Decl("class", "WeaponTemplate", "ScriptableObject", "100",
                          FALSE, own, <<>>),
                     Decl("class", "HitInfo", NoBase, index, FALSE, hit, <<>>),
                     Decl("class", "Effect", "Object", "100", FALSE, effect, <<>>)>>
                   \o modifier \o more

InitGen ==
    /\ gpc = "start"
    /\ \/ /\ dump_exists = TRUE
          /\ \/ HierarchyDump(content)
             \/ LayoutDump(content)
             \/ FieldDump(content)
             \/ ElementDump(content)
       \/ /\ dump_exists = FALSE
          /\ content = <<>>
    /\ enums = <<>>
    /\ structs = <<>>
    /\ template_names = <<>>
    /\ hierarchy = <<>>
    /\ templates = <<>>
    /\ inheritance = <<>>
    /\ embedded_classes = <<>>
    /\ to_process = {}
    /\ processed = {}
    /\ parse_calls = <<>>
    /\ gexit = -1

\* main, lines 531-533: a missing dump ends the run with 1.
GenNotFound ==
    /\ gpc = "start"
    /\ ~dump_exists
    /\ gpc' = "done"
    /\ gexit' = 1
    /\ UNCHANGED <<diffVars, valVars, toolVars>>
    /\ UNCHANGED <<discVars, clsVars>>
    /\ UNCHANGED <<dump_exists, content, enums, structs, template_names,
                   hierarchy, templates, inheritance>>

\* build_schema, lines 440-453: enums, structs, template names, hierarchy.
GenParse ==
    /\ gpc = "start"
    /\ dump_exists
    /\ enums' = parse_all_enums(content)
    /\ structs' = parse_all_structs(content)
    /\ template_names' = parse_all_templates(content)
    /\ hierarchy' = build_template_hierarchy(content,
                        {template_names'[i] : i \in 1..Len(template_names')})
    /\ gpc' = "parsed"
    /\ UNCHANGED <<diffVars, valVars, toolVars>>
    /\ UNCHANGED <<discVars, clsVars>>
    /\ UNCHANGED <<dump_exists, content, templates, inheritance, gexit>>

\* build_schema, lines 455-488: the entry of every template that parses.
GenTemplates ==
    /\ gpc = "parsed"
    /\ templates' = BuildTemplates(content, template_names,
                                   DOMAIN enums, DOMAIN structs)
    /\ gpc' = "templates"
    /\ UNCHANGED <<diffVars, valVars, toolVars>>
    /\ UNCHANGED <<discVars, clsVars>>
    /\ UNCHANGED <<dump_exists, content, enums, structs, template_names,
                   hierarchy, inheritance, gexit>>

\* build_schema, lines 490-494: the chain of every template with a parent.
GenInheritance ==
    /\ gpc = "templates"
    /\ inheritance' = BuildInheritance(template_names, hierarchy)
    /\ gpc' = "inheritance"
    /\ UNCHANGED <<diffVars, valVars, toolVars>>
    /\ UNCHANGED <<discVars, clsVars>>
    /\ UNCHANGED <<dump_exists, content, enums, structs, template_names,
                   hierarchy, templates, gexit>>

\* discover_embedded_classes, lines 351-372: the work set is seeded with the
\* element types of the templates' fields.
GenSeed ==
    /\ gpc = "inheritance"
    /\ embedded_classes' = <<>>
    /\ to_process' = SeedTypes(templates, DOMAIN enums, DOMAIN structs,
                               {template_names[i] : i \in 1..Len(template_names)})
    /\ processed' = {}
    /\ parse_calls' = <<>>
    /\ gpc' = "discovering"
    /\ UNCHANGED <<diffVars, valVars, toolVars, clsVars>>
    /\ UNCHANGED <<dump_exists, content, enums, structs, template_names,
                   hierarchy, templates, inheritance, gexit>>

\* One pass of the while loop that leaves `processed` as it was: what GenPop
\* must not be.
GenPopUnmarked ==
    /\ gpc = "discovering"
    /\ to_process # {}
    /\ \E class_name \in to_process :
        LET known_templates == {template_names[i] : i \in 1..Len(template_names)}
            class_info == parse_embedded_class(content, class_name)
            entry == EmbeddedEntry(class_info[1], DOMAIN enums, DOMAIN structs,
                                   known_templates)
        IN  /\ parse_calls' = Append(parse_calls, class_name)
            /\ IF class_info = <<>>
               THEN /\ to_process' = to_process \ {class_name}
                    /\ UNCHANGED embedded_classes
               ELSE /\ to_process' =
                           (to_process \ {class_name}) \cup
                           QueuedTypes(entry, processed, DOMAIN enums,
                                       DOMAIN structs, known_templates)
                    /\ embedded_classes' =
                           AddEntry(embedded_classes, class_name, entry)
    /\ UNCHANGED <<diffVars, valVars, toolVars, clsVars>>
    /\ UNCHANGED <<gpc, dump_exists, content, enums, structs, template_names,
                   hierarchy, templates, inheritance, gexit, processed>>

\* discover_embedded_classes, lines 373-410: one pass of the while loop.
\* set.pop() takes an arbitrary name of the work set.
GenPop ==
    /\ gpc = "discovering"
    /\ to_process # {}
    /\ \E class_name \in to_process :
        LET known_enums == DOMAIN enums
            known_structs == DOMAIN structs
            known_templates == {template_names[i] : i \in 1..Len(template_names)}
            class_info == parse_embedded_class(content, class_name)
            entry == EmbeddedEntry(class_info[1], known_enums, known_structs,
                                   known_templates)
        IN  IF class_name \in processed \/ class_name \in skip_types
            THEN /\ to_process' = to_process \ {class_name}
                 /\ UNCHANGED <<embedded_classes, processed, parse_calls>>
            ELSE /\ processed' = processed \cup {class_name}
                 /\ parse_calls' = Append(parse_calls, class_name)
                 /\ IF class_info = <<>>
                    THEN /\ to_process' = to_process \ {class_name}
                         /\ UNCHANGED embedded_classes
                    ELSE /\ to_process' =
                                (to_process \ {class_name}) \cup
                                QueuedTypes(entry, processed', known_enums,
                                            known_structs, known_templates)
                         /\ embedded_classes' =
                                AddEntry(embedded_classes, class_name, entry)
    /\ UNCHANGED <<diffVars, valVars, toolVars, clsVars>>
    /\ UNCHANGED <<gpc, dump_exists, content, enums, structs, template_names,
                   hierarchy, templates, inheritance, gexit>>

\* discover_embedded_classes, line 412, and main, lines 535-557: the work
\* set is empty, the schema is written and the run ends with 0.
GenWrite ==
    /\ gpc = "discovering"
    /\ to_process = {}
    /\ gpc' = "done"
    /\ gexit' = 0
    /\ UNCHANGED <<diffVars, valVars, toolVars>>
    /\ UNCHANGED <<discVars, clsVars>>
    /\ UNCHANGED <<dump_exists, content, enums, structs, template_names,
                   hierarchy, templates, inheritance>>

\* A call of classify_field: a name, an array or a list of a name as the
\* declared type, with any known names.
InitClassify ==
    /\ cpc = "start"
    /\ \E n \in {"int", "Int32", "string", "String", "uint", "WeaponType",
                  "DamageInfo", "LocalizedLine", "Sprite", "WeaponTemplate",
                  "itemTemplate", "HitInfo", "UnityEngine.Color"} :
           declared_type \in {Plain(n), Array(n), List(n)}
    /\ known \in [enums : SUBSET {"WeaponType", "int", "Sprite"},
                  structs : SUBSET {"DamageInfo", "WeaponType", "String"},
                  templates : SUBSET {"WeaponTemplate", "itemTemplate", "HitInfo"}]
    /\ classified = [category |-> "", element_type |-> None]

\* classify_field, lines 155-192.
Classify ==
    /\ cpc = "start"
    /\ classified' = classify_field(declared_type, known.enums, known.structs,
                                    known.templates)
    /\ cpc' = "done"
    /\ UNCHANGED <<diffVars, valVars, toolVars>>
    /\ UNCHANGED <<gpc, dump_exists, content, enums, structs, template_names,
                   hierarchy, templates, inheritance, gexit, discVars>>
    /\ UNCHANGED <<declared_type, known>>

(***************************************************************************)
(* tools/il2cpp-dump-legacy/build_template_hierarchy.py                    *)
(* An instance name is the sequence of its dot-free pieces and its dots:   *)
(* "mod.heavy" is <<"mod", ".", "heavy">>, "" is <<>>, and no two pieces   *)
(* are adjacent.  A path is the sequence of its keys.  The menu is a       *)
(* function from the paths of its dicts to [leaf, template_type, name,     *)
(* data]: leaf is TRUE for a dict written at line 169 (it holds the three  *)
(* keys template_type, name and data), FALSE for a dict created at line    *)
(* 164.  The pieces drawn are none of the three keys of a leaf, so that no *)
(* walk steps into a value of a leaf.                                      *)
(***************************************************************************)
\* Longest instance list of a file drawn for the menu builder.
MaxPlaced == 2

Dot == "."

\* name.split('.'), from position i on, with the piece read so far.
RECURSIVE SplitFrom(_, _, _)
SplitFrom(name, i, current) ==
    IF i > Len(name) THEN <<current>>
    ELSE IF name[i] = Dot
         THEN <<current>> \o SplitFrom(name, i + 1, "")
         ELSE SplitFrom(name, i + 1, name[i])

build_name_path(name) == SplitFrom(name, 1, "")

\* An instance of a file: a JSON object with its name ("" when it has
\* none) and a value that tells it from every other instance, or a JSON
\* value that is not an object.
Entry(name, id) == [isdict |-> TRUE, name |-> name, id |-> id]
Scalar(id) == [isdict |-> FALSE, name |-> <<>>, id |-> id]

SkippedFiles == {"AssetReferences", "menu"}

\* templates_by_type after the loading loop.
templates_by_type ==
    [t \in {f \in DOMAIN extracted_data :
               f \notin SkippedFiles /\ extracted_data[f].kind = "list"}
        |-> extracted_data[t].instances]

menu_chain(template_type) == get_inheritance_chain(template_type, type_hierarchy)

get_depth(template_type) ==
    IF template_type \notin DOMAIN type_hierarchy THEN 0
    ELSE Len(menu_chain(template_type))

\* The orders sorted(templates_by_type.keys(), key=get_depth, reverse=True)
\* can give: the sort is stable and the directory listing is in no fixed
\* order.
SortedTypes ==
    {order \in [1..Cardinality(DOMAIN templates_by_type) -> DOMAIN templates_by_type] :
        /\ \A i, j \in DOMAIN order : i # j => order[i] # order[j]
        /\ \A i, j \in DOMAIN order :
              i < j => get_depth(order[i]) >= get_depth(order[j])}

IsPrefixOf(p, q) == Len(p) <= Len(q) /\ SubSeq(q, 1, Len(p)) = p

Folder == [leaf |-> FALSE, template_type |-> "", name |-> <<>>,
           data |-> Scalar(<<>>)]

Leaf(template_type, instance) ==
    [leaf |-> TRUE, template_type |-> template_type, name |-> instance.name,
     data |-> instance]

\* The walk of lines 161-165: every dict missing on the way is created.
Walk(m, path_parts) ==
    LET missing == {SubSeq(path_parts, 1, k) : k \in 1..Len(path_parts)}
                       \ DOMAIN m
    IN  [p \in DOMAIN m \cup missing |-> IF p \in DOMAIN m THEN m[p] ELSE Folder]

\* current[leaf_name] = {...}: what was held under that key is replaced.
Assign(m, path, node) ==
    LET kept == {p \in DOMAIN m : ~IsPrefixOf(path, p)}
    IN  [p \in kept \cup {path} |-> IF p = path THEN node ELSE m[p]]

Skipped(instance, placed) ==
    \/ ~instance.isdict
    \/ instance.name = <<>>
    \/ instance.name \in DOMAIN placed

LeafPath(template_type, name) == menu_chain(template_type) \o build_name_path(name)

\* One pass of the loop body, lines 137-176.
PlaceInstance(template_type, instance) ==
    IF Skipped(instance, placement_map)
    THEN UNCHANGED <<menu, placement_map>>
    ELSE LET name_parts == build_name_path(instance.name)
             path_parts == menu_chain(template_type)
                               \o SubSeq(name_parts, 1, Len(name_parts) - 1)
             leaf_path == path_parts \o <<name_parts[Len(name_parts)]>>
         IN  /\ menu' = Assign(Walk(menu, path_parts), leaf_path,
                               Leaf(template_type, instance))
             /\ placement_map' =
                    [n \in DOMAIN placement_map \cup {instance.name} |->
                        IF n = instance.name THEN leaf_path
                        ELSE placement_map[n]]

InstancesOf(types) == IF types = <<>> THEN <<>> ELSE templates_by_type[types[1]]

MenuLoad ==
    /\ mpc = "load"
    /\ \E order \in SortedTypes :
          /\ sorted_types' = order
          /\ remaining' = InstancesOf(order)
    /\ mpc' = "place"
    /\ UNCHANGED <<type_hierarchy, extracted_data, menu, placement_map>>
    /\ UNCHANGED <<diffVars, valVars, genVars, scrapeVars>>

MenuPlace ==
    /\ mpc = "place"
    /\ sorted_types # <<>>
    /\ remaining # <<>>
    /\ PlaceInstance(Head(sorted_types), Head(remaining))
    /\ remaining' = Tail(remaining)
    /\ UNCHANGED <<mpc, type_hierarchy, extracted_data, sorted_types>>
    /\ UNCHANGED <<diffVars, valVars, genVars, scrapeVars>>

MenuNextType ==
    /\ mpc = "place"
    /\ sorted_types # <<>>
    /\ remaining = <<>>
    /\ sorted_types' = Tail(sorted_types)
    /\ remaining' = InstancesOf(Tail(sorted_types))
    /\ UNCHANGED <<mpc, type_hierarchy, extracted_data, menu, placement_map>>
    /\ UNCHANGED <<diffVars, valVars, genVars, scrapeVars>>

\* json.dump(menu, f, indent=2)
MenuSave ==
    /\ mpc = "place"
    /\ sorted_types = <<>>
    /\ mpc' = "done"
    /\ UNCHANGED <<type_hierarchy, extracted_data, sorted_types, remaining,
                   menu, placement_map>>
    /\ UNCHANGED <<diffVars, valVars, genVars, scrapeVars>>

\* The hierarchies drawn: a chain under a root, a base that is no key, no
\* entry at all, a cycle, and a chain of three.
MenuHierarchies ==
    { [WeaponTemplate |-> "BaseItemTemplate", BaseItemTemplate |-> None],
      [WeaponTemplate |-> "BaseItemTemplate"],
      <<>>,
      [WeaponTemplate |-> "BaseItemTemplate", BaseItemTemplate |-> "WeaponTemplate"],
      [WeaponTemplate |-> "BaseItemTemplate", BaseItemTemplate |-> "DataTemplate"] }

MenuNames ==
    { <<"a">>, <<"a", Dot, "b">>, <<"WeaponTemplate">>, <<>> }

\* The instance lists of the file of one type.
MenuLists(type) ==
    UNION { { [k \in 1..n |-> IF names[k] = <<Dot>> THEN Scalar(<<type, k>>)
                              ELSE Entry(names[k], <<type, k>>)] :
                names \in [1..n -> MenuNames \cup {<<Dot>>}] } :
            n \in 0..MaxPlaced }

\* Directories with a file that the loading loop leaves out.
OddDirectories ==
    LET one(type) == ListFile(<<Entry(<<"a">>, <<type, 1>>)>>)
    IN  { [WeaponTemplate |-> one("WeaponTemplate"), BaseItemTemplate |-> ObjectFile],
          [WeaponTemplate |-> InvalidFile, BaseItemTemplate |-> one("BaseItemTemplate")],
          [WeaponTemplate |-> one("WeaponTemplate"),
           AssetReferences |-> one("AssetReferences")],
          [WeaponTemplate |-> one("WeaponTemplate"), menu |-> ObjectFile],
          [BaseItemTemplate |-> one("BaseItemTemplate")],
          <<>> }

MenuDirectories ==
    { [WeaponTemplate |-> ListFile(w), BaseItemTemplate |-> ListFile(b)] :
        w \in MenuLists("WeaponTemplate"), b \in MenuLists("BaseItemTemplate") }
    \cup OddDirectories

InitMenu ==
    /\ mpc = "load"
    /\ type_hierarchy \in MenuHierarchies
    /\ extracted_data \in MenuDirectories
    /\ sorted_types = <<>>
    /\ remaining = <<>>
    /\ menu = <<>>
    /\ placement_map = <<>>

(***************************************************************************)
(* tools/extract_conversations.py                                          *)
(* A line of the strings output is kept as what the parsers make of it: a  *)
(* localization line with the prefix its conversation path starts with and *)
(* whether it gives a node with a text, a pipe-delimited node with its     *)
(* type and whether its JSON loads, or any other line.  A JSON file is     *)
(* kept as the lines its entries were made from.                           *)
(***************************************************************************)
\* Longest output of the strings process drawn for the scraper.
MaxLines == 2

LocaLine(under, text) ==
    [form |-> "loca", under |-> under, type |-> "", text |-> text]
NodeLine(type, loads) ==
    [form |-> "node", under |-> "", type |-> type, text |-> loads]
OtherLine == [form |-> "other", under |-> "", type |-> "", text |-> FALSE]

\* How the strings process can end: it exits (with any status), it is still
\* running after the time allowed, or the command cannot be started.
Exited(returncode, stdout) ==
    [ends |-> "exit", returncode |-> returncode, stdout |-> stdout]
StillRunning(stdout) == [ends |-> "timeout", returncode |-> 0, stdout |-> stdout]
NotStarted == [ends |-> "missing", returncode |-> 0, stdout |-> <<>>]

\* find_resources_assets: the path found, or None for FileNotFoundError.
find_resources_assets(at) ==
    IF at = "game_dir" THEN "resources.assets"
    ELSE IF at = "Menace_Data" THEN "Menace_Data/resources.assets"
    ELSE None

\* extract_strings with the partial output returned when the time is up.
extract_strings_partial(run) ==
    IF run.ends = "missing"
    THEN [raised |-> "FileNotFoundError", value |-> <<>>]
    ELSE [raised |-> "", value |-> run.stdout]

\* extract_strings: subprocess.run raises TimeoutExpired when the process is
\* still running after timeout=120 seconds and FileNotFoundError when the
\* command does not exist; the exit status is not looked at.
extract_strings(run) ==
    IF run.ends = "timeout"
    THEN [raised |-> "TimeoutExpired", value |-> <<>>]
    ELSE IF run.ends = "missing"
    THEN [raised |-> "FileNotFoundError", value |-> <<>>]
    ELSE [raised |-> "", value |-> run.stdout]

\* The category main puts a conversation in, lines 394-404.
CategoryFile(under) ==
    IF under = "Events/Story/" THEN "story_events.json"
    ELSE IF under \in {"Events/SystemMap/", "Events/Tactical/"}
    THEN "system_map_events.json"
    ELSE IF under = "TacticalBarks/" THEN "tactical_events_loca.json"
    ELSE IF under = "Conversations/" THEN "conversation_metadata.json"
    ELSE "other_conversations.json"

IsLoca(line) == line.form = "loca"
IsNode(line) == line.form = "node"
Spoken(line) ==
    \/ line.form = "loca" /\ line.text
    \/ line.form = "node" /\ line.type = "SAY" /\ line.text

\* The conversations of one category, as the lines they were made from.
ConversationsIn(strings_list, file) ==
    {strings_list[i] : i \in {k \in 1..Len(strings_list) :
        IsLoca(strings_list[k]) /\ CategoryFile(strings_list[k].under) = file}}

CategoryFiles ==
    {"story_events.json", "system_map_events.json", "tactical_events_loca.json",
     "conversation_metadata.json", "other_conversations.json"}

AlwaysWritten ==
    {"tactical_barks_raw.json", "tactical_barks_grouped.json",
     "all_dialogue_flat.json"}

\* The files main writes from all_strings, lines 382-463.
WrittenFiles(strings_list) ==
    LET written == {f \in CategoryFiles : ConversationsIn(strings_list, f) # {}}
                       \cup AlwaysWritten
    IN  [f \in written |->
            IF f \in CategoryFiles THEN ConversationsIn(strings_list, f)
            ELSE IF f = "tactical_barks_raw.json"
            THEN SelectSeq(strings_list, IsNode)
            ELSE IF f = "tactical_barks_grouped.json"
            THEN SelectSeq(SelectSeq(strings_list, IsNode), Spoken)
            ELSE SelectSeq(SelectSeq(strings_list, IsLoca), Spoken)
                     \o SelectSeq(SelectSeq(strings_list, IsNode), Spoken)]

\* main, lines 357-359: no argument.
ScrapeUsage ==
    /\ spc = "start"
    /\ Len(argv) < 1
    /\ failure' = "usage"
    /\ sexit' = 1
    /\ spc' = "done"
    /\ UNCHANGED <<argv, assets_at, strings_run, all_strings, output_dir,
                   output_files>>
    /\ UNCHANGED <<diffVars, valVars, genVars, menuVars>>

\* main, lines 361-375.
ScrapeFind ==
    /\ spc = "start"
    /\ Len(argv) >= 1
    /\ IF find_resources_assets(assets_at) = None
       THEN /\ failure' = "Error: Could not find resources.assets"
            /\ sexit' = 1
            /\ spc' = "done"
            /\ UNCHANGED output_dir
       ELSE /\ output_dir' = IF Len(argv) > 1 THEN argv[2]
                             ELSE IF assets_at = "game_dir"
                                  THEN "ExtractedConversations"
                                  ELSE "Menace_Data/ExtractedConversations"
            /\ spc' = "strings"
            /\ UNCHANGED <<failure, sexit>>
    /\ UNCHANGED <<argv, assets_at, strings_run, all_strings, output_files>>
    /\ UNCHANGED <<diffVars, valVars, genVars, menuVars>>

\* main, lines 377-380: an exception of extract_strings is caught nowhere
\* and ends the run with status 1.
ScrapeStrings ==
    /\ spc = "strings"
    /\ LET result == extract_strings(strings_run)
       IN  IF result.raised # ""
           THEN /\ failure' = result.raised
                /\ sexit' = 1
                /\ spc' = "done"
                /\ UNCHANGED all_strings
           ELSE /\ all_strings' = result.value
                /\ spc' = "write"
                /\ UNCHANGED <<failure, sexit>>
    /\ UNCHANGED <<argv, assets_at, strings_run, output_dir, output_files>>
    /\ UNCHANGED <<diffVars, valVars, genVars, menuVars>>

\* main, lines 382-473.
ScrapeWrite ==
    /\ spc = "write"
    /\ output_files' = WrittenFiles(all_strings)
    /\ sexit' = 0
    /\ spc' = "done"
    /\ UNCHANGED <<argv, assets_at, strings_run, all_strings, output_dir,
                   failure>>
    /\ UNCHANGED <<diffVars, valVars, genVars, menuVars>>

ScrapedLines ==
    { LocaLine("Events/Story/", TRUE), LocaLine("Events/Story/", FALSE),
      LocaLine("Events/SystemMap/", TRUE), LocaLine("TacticalBarks/", TRUE),
      LocaLine("Conversations/", FALSE), LocaLine("Events/", TRUE),
      NodeLine("SAY", TRUE), NodeLine("SAY", FALSE), NodeLine("EMPTY", TRUE),
      OtherLine }

StringsRuns ==
    { Exited(rc, out) : rc \in {0, 1}, out \in SeqUpTo(ScrapedLines, MaxLines) }
    \cup { StillRunning(out) : out \in SeqUpTo(ScrapedLines, MaxLines) }
    \cup { NotStarted }

InitScrape ==
    /\ spc = "start"
    /\ argv \in {<<>>, <<"game">>, <<"game", "out">>}
    /\ assets_at \in {"", "game_dir", "Menace_Data"}
    /\ strings_run \in StringsRuns
    /\ all_strings = <<>>
    /\ output_dir = ""
    /\ output_files = <<>>
    /\ failure = ""
    /\ sexit = -1

(***************************************************************************)
(* The specifications: one run of one tool, the other tools not started.   *)
(***************************************************************************)
IdleDiff ==
    /\ pc = "idle"
    /\ paths_exist = [old |-> FALSE, new |-> FALSE]
    /\ old_schema = Schema(<<>>, <<>>, <<>>)
    /\ new_schema = Schema(<<>>, <<>>, <<>>)
    /\ enum_results = <<>>
    /\ struct_results = <<>>
    /\ template_results = <<>>
    /\ has_critical = FALSE
    /\ exit_code = -1

IdleVal ==
    /\ vpc = "idle"
    /\ inputs_exist = [schema |-> FALSE, data |-> FALSE]
    /\ schema = [templates |-> <<>>]
    /\ data_dir = <<>>
    /\ coverage_results = <<>>
    /\ found_types = {}
    /\ name_results = <<>>
    /\ field_results = <<>>
    /\ type_results = <<>>
    /\ fail_count = 0
    /\ warn_count = 0
    /\ vexit = -1

IdleClassify ==
    /\ cpc = "idle"
    /\ declared_type = Plain("int")
    /\ known = [enums |-> {}, structs |-> {}, templates |-> {}]
    /\ classified = [category |-> "", element_type |-> None]

IdleGen ==
    /\ gpc = "idle"
    /\ dump_exists = FALSE
    /\ content = <<>>
    /\ enums = <<>>
    /\ structs = <<>>
    /\ template_names = <<>>
    /\ hierarchy = <<>>
    /\ templates = <<>>
    /\ inheritance = <<>>
    /\ embedded_classes = <<>>
    /\ to_process = {}
    /\ processed = {}
    /\ parse_calls = <<>>
    /\ gexit = -1

IdleMenu ==
    /\ mpc = "idle"
    /\ type_hierarchy = <<>>
    /\ extracted_data = <<>>
    /\ sorted_types = <<>>
    /\ remaining = <<>>
    /\ menu = <<>>
    /\ placement_map = <<>>

IdleScrape ==
    /\ spc = "idle"
    /\ argv = <<>>
    /\ assets_at = ""
    /\ strings_run = [ends |-> "", returncode |-> 0, stdout |-> <<>>]
    /\ all_strings = <<>>
    /\ output_dir = ""
    /\ output_files = <<>>
    /\ failure = ""
    /\ sexit = -1

IdleTools == IdleMenu /\ IdleScrape

\* diff_schemas.main
Init == InitDiff /\ IdleVal /\ IdleGen /\ IdleClassify /\ IdleTools

Next ==
    \/ MainNotFound
    \/ MainEnums
    \/ MainStructs
    \/ MainTemplates
    \/ MainSummary

Spec == Init /\ [][Next]_vars

\* validate_extraction.main
ValInit == InitVal /\ IdleDiff /\ IdleGen /\ IdleClassify /\ IdleTools

ValNext ==
    \/ ValNotFound
    \/ ValCoverage
    \/ ValNames
    \/ ValFields
    \/ ValTypes
    \/ ValOverall

SpecValidate == ValInit /\ [][ValNext]_vars

\* generate_schema.main
GenInit == InitGen /\ IdleDiff /\ IdleVal /\ IdleClassify /\ IdleTools

GenNext ==
    \/ GenNotFound
    \/ GenParse
    \/ GenTemplates
    \/ GenInheritance
    \/ GenSeed
    \/ GenPop
    \/ GenWrite

SpecGenerate == GenInit /\ [][GenNext]_vars

\* generate_schema.classify_field
ClassifyInit == InitClassify /\ IdleDiff /\ IdleVal /\ IdleGen /\ IdleTools

SpecClassify == ClassifyInit /\ [][Classify]_vars

\* build_template_hierarchy.build_hierarchical_menu
MenuInit == InitMenu /\ IdleDiff /\ IdleVal /\ IdleGen /\ IdleClassify /\ IdleScrape

MenuNext ==
    \/ MenuLoad
    \/ MenuPlace
    \/ MenuNextType
    \/ MenuSave

SpecMenu == MenuInit /\ [][MenuNext]_vars

\* extract_conversations.main
ScrapeInit == InitScrape /\ IdleDiff /\ IdleVal /\ IdleGen /\ IdleClassify /\ IdleMenu

ScrapeNext ==
    \/ ScrapeUsage
    \/ ScrapeFind
    \/ ScrapeStrings
    \/ ScrapeWrite

SpecScrape == ScrapeInit /\ [][ScrapeNext]_vars

(***************************************************************************)
(* Properties of the schema differ.                                        *)
(***************************************************************************)
\* Both schema files were read and all three grains were compared.
Compared == pc = "done" /\ paths_exist.old /\ paths_exist.new

\* The positions of the records of a level.
LevelAt(results, level) == {i \in 1..Len(results) : results[i][1] = level}

\* C1: diffing a schema against itself yields no record in any grain.
C1_SelfDiffEmpty ==
    (Compared /\ old_schema = new_schema) =>
        /\ enum_results = <<>>
        /\ struct_results = <<>>
        /\ template_results = <<>>

\* A schema with enums, structs and a two-field template was diffed against
\* itself.
C1_Witness ==
    /\ Compared
    /\ old_schema = new_schema
    /\ old_schema.enums # <<>>
    /\ old_schema.structs # <<>>
    /\ \E t \in DOMAIN old_schema.templates :
          Len(old_schema.templates[t].fields) = 2

\* The new schema is the old one with the offset of entry i of template t
\* changed, and nothing else.
OneOffsetEdit(t, i) ==
    /\ old_schema.enums = new_schema.enums
    /\ old_schema.structs = new_schema.structs
    /\ DOMAIN old_schema.templates = DOMAIN new_schema.templates
    /\ t \in DOMAIN old_schema.templates
    /\ \A u \in DOMAIN old_schema.templates \ {t} :
          old_schema.templates[u] = new_schema.templates[u]
    /\ LET of == old_schema.templates[t].fields
           nf == new_schema.templates[t].fields
       IN  /\ Len(of) = Len(nf)
           /\ i \in 1..Len(of)
           /\ \A j \in 1..Len(of) : j # i => of[j] = nf[j]
           /\ of[i].name = nf[i].name
           /\ of[i].type = nf[i].type
           /\ of[i].offset # nf[i].offset

\* The CRIT records of the template grain that report field fname.
FieldCrits(fname) ==
    {p \in LevelAt(template_results, "CRIT") :
        \E a \in Offsets, b \in Offsets :
            template_results[p][2] =
                "  OFFSET " \o fname \o ": " \o a \o " -> " \o b}

\* C2: changing the offset of one field of one template, and nothing else,
\* yields exactly one CRIT record for that field and exit code 2.
C2_OffsetEditIsCritical ==
    \A t \in TemplateNames : \A i \in 1..MaxFields :
        (Compared /\ OneOffsetEdit(t, i)) =>
            /\ Cardinality(FieldCrits(old_schema.templates[t].fields[i].name)) = 1
            /\ exit_code = 2

\* The records of one grain announce the names `names` with one summary
\* record of level `level` directly followed by one INFO record per name,
\* in ascending name order, or with nothing when there is no such name.
SummaryBlock(results, level, summary, names, Info(_)) ==
    LET k == Cardinality(names)
    IN  /\ Cardinality(LevelAt(results, level)) = (IF names = {} THEN 0 ELSE 1)
        /\ \A n \in names :
              Cardinality({p \in 1..Len(results) :
                              results[p] = <<"INFO", Info(n)>>}) = 1
        /\ \A i \in LevelAt(results, level) :
              /\ results[i][2] = ToString(k) \o summary
              /\ i + k <= Len(results)
              /\ \A j \in 1..k : \E n \in names :
                    results[i + j] = <<"INFO", Info(n)>>
              /\ \A j1 \in 1..k, j2 \in 1..k : \A n1 \in names, n2 \in names :
                    (/\ j1 < j2
                     /\ results[i + j1] = <<"INFO", Info(n1)>>
                     /\ results[i + j2] = <<"INFO", Info(n2)>>)
                    => Rank(n1) < Rank(n2)

Removed(grain) == DOMAIN old_schema[grain] \ DOMAIN new_schema[grain]

Added(grain) == DOMAIN new_schema[grain] \ DOMAIN old_schema[grain]

\* C3: in each grain, removed names yield one DEL summary followed by one
\* INFO record per removed name in ascending order, added names yield one
\* ADD summary followed by one INFO record per added name, and no DEL (ADD)
\* record is produced when no name was removed (added).
C3_AddDelBlocks ==
    Compared =>
        /\ SummaryBlock(enum_results, "DEL", " removed enums",
                        Removed("enums"), LAMBDA n : "  - " \o n)
        /\ SummaryBlock(enum_results, "ADD", " new enums",
                        Added("enums"), LAMBDA n :
                            "  + " \o n \o " (" \o
                            ToString(Cardinality(DOMAIN new_schema.enums[n].values))
                            \o " values)")
        /\ SummaryBlock(struct_results, "DEL", " removed structs",
                        Removed("structs"), LAMBDA n : "  - " \o n)
        /\ SummaryBlock(struct_results, "ADD", " new structs",
                        Added("structs"), LAMBDA n : "  + " \o n)
        /\ SummaryBlock(template_results, "DEL", " removed templates",
                        Removed("templates"), LAMBDA n : "  - " \o n)
        /\ SummaryBlock(template_results, "ADD", " new templates",
                        Added("templates"), LAMBDA n :
                            "  + " \o n \o " (" \o
                            ToString(Len(new_schema.templates[n].fields))
                            \o " fields)")

\* Two names were removed from one grain and two were added to another run's
\* grain: here, both templates of the old schema are gone from the new one.
C3_Witness ==
    /\ Compared
    /\ Cardinality(Removed("templates")) = 2
    /\ Len(template_results) = 3

\* The entries of a field list that carry the name fname, in list order.
Entries(fields, fname) == SelectSeq(fields, LAMBDA f : f.name = fname)

\* Some entry of a field name has a different offset in the two lists.  The
\* entries of one name are paired from the end of the lists (the flattened
\* order is ancestor first, so the last entry is the most derived one).
FieldOffsetDiffers(old_fields, new_fields) ==
    \E fname \in {old_fields[i].name : i \in 1..Len(old_fields)} :
        LET oe == Entries(old_fields, fname)
            ne == Entries(new_fields, fname)
        IN  \E k \in 1..Len(oe) :
                /\ k <= Len(ne)
                /\ oe[Len(oe) - k + 1].offset # ne[Len(ne) - k + 1].offset

EnumValueDiffers ==
    \E n \in DOMAIN old_schema.enums \cap DOMAIN new_schema.enums :
        \E v \in DOMAIN old_schema.enums[n].values
                  \cap DOMAIN new_schema.enums[n].values :
            old_schema.enums[n].values[v] # new_schema.enums[n].values[v]

StructSizeDiffers ==
    \E n \in DOMAIN old_schema.structs \cap DOMAIN new_schema.structs :
        old_schema.structs[n].size_bytes # new_schema.structs[n].size_bytes

TemplateOffsetDiffers ==
    \E t \in DOMAIN old_schema.templates \cap DOMAIN new_schema.templates :
        FieldOffsetDiffers(old_schema.templates[t].fields,
                           new_schema.templates[t].fields)

AnyCrit ==
    \/ AnyLevel(enum_results, "CRIT")
    \/ AnyLevel(struct_results, "CRIT")
    \/ AnyLevel(template_results, "CRIT")

\* C4: with both files present the exit code is 2 iff some grain holds a CRIT
\* record and 0 otherwise, and a CRIT record is produced exactly when a
\* common enum has a value whose integer differs, a common struct's size
\* differs, or a common template has a field name whose offset differs.
C4_ExitCodeIffCritical ==
    Compared =>
        /\ exit_code \in {0, 2}
        /\ exit_code = 2 <=> AnyCrit
        /\ AnyCrit <=>
              (EnumValueDiffers \/ StructSizeDiffers \/ TemplateOffsetDiffers)

(***************************************************************************)
(* Claims about validate_extraction.py.                                    *)
(***************************************************************************)
\* The run got past the coverage check.
CoverageDone == vpc \notin {"idle", "start"} /\ inputs_exist.schema /\ inputs_exist.data

\* The non-abstract templates of the schema, and those with a data file.
NonAbstract == {t \in DOMAIN schema.templates : ~schema.templates[t].is_abstract}
WithFile == {t \in NonAbstract : t \in DOMAIN data_dir}

\* C5: with N non-abstract templates of which K have a data file, the first
\* coverage record reads "K/N types have output ...", its level is PASS iff
\* K = N, WARN iff 0.7 <= K/N < 1 and FAIL otherwise, and the returned set is
\* exactly the K names (never an abstract template, with or without a file).
C5_CoverageVerdict ==
    CoverageDone =>
        LET N == Cardinality(NonAbstract)
            K == Cardinality(WithFile)
            verdict == coverage_results[1]
        IN  /\ verdict[2] = ToString(K) \o "/" \o ToString(N)
                  \o " types have output ("
                  \o ToString(Cardinality(DOMAIN schema.templates) - N)
                  \o " abstract, expected no output)"
            /\ verdict[1] \in {"PASS", "WARN", "FAIL"}
            /\ verdict[1] = "PASS" <=> K = N
            /\ verdict[1] = "WARN" <=> (7 * N <= 10 * K /\ K < N)
            /\ \A i \in 2..Len(coverage_results) : coverage_results[i][1] = "INFO"
            /\ found_types = WithFile

\* Seven of ten concrete templates have a file (the 0.7 boundary) and the
\* abstract template has a file that is ignored.
C5_Witness ==
    /\ CoverageDone
    /\ Cardinality(NonAbstract) = 10
    /\ Cardinality(WithFile) = 7
    /\ coverage_results[1][1] = "WARN"
    /\ "BaseItemTemplate" \in DOMAIN data_dir
    /\ "BaseItemTemplate" \notin found_types

\* All the records the run has reported.
Reported == coverage_results \o name_results \o field_results \o type_results

\* C6: with schema and data directory present, the exit code is 2 if any
\* reported record is FAIL or no non-abstract template has a data file,
\* otherwise 1 if any record is WARN, otherwise 0.
C6_ExitCodeFromRecords ==
    (CoverageDone /\ vexit # -1) =>
        vexit = IF AnyLevel(Reported, "FAIL") \/ WithFile = {} THEN 2
                ELSE IF AnyLevel(Reported, "WARN") THEN 1
                ELSE 0

\* The run got past the type validation.
TypesDone == vpc = "types" \/ (vpc = "done" /\ CoverageDone /\ found_types # {})

FloatingPoint == {"float", "Single", "double", "Double"}

\* C7: a field declared float, Single, double or Double for which one of the
\* first 50 instances of the template's file records a number beyond 1e10
\* makes type validation report FAIL for that template.
C7_GarbageFloatFails ==
    TypesDone =>
        \A t \in found_types :
            LET fields == schema.templates[t].fields
                file == data_dir[t]
            IN  (/\ file.kind = "list"
                 /\ \E i \in 1..Len(file.instances) :
                    \E k \in 1..Len(fields) :
                        /\ i <= 50
                        /\ fields[k].type \in FloatingPoint
                        /\ file.instances[i].isdict
                        /\ fields[k].name \in DOMAIN file.instances[i].items
                        /\ file.instances[i].items[fields[k].name].t
                              \in {"int", "float"}
                        /\ MagnitudeExceeds(
                              file.instances[i].items[fields[k].name], 10))
                => \E j \in 1..Len(type_results) :
                       /\ type_results[j][1] = "FAIL"
                       /\ type_results[j][2] \in
                            {t \o ": " \o ToString(n) \o " type errors" : n \in 1..200}

(***************************************************************************)
(* Claims about tools/generate_schema.py.                                  *)
(***************************************************************************)
\* The schema has its templates; the schema has its inheritance chains.
TemplatesBuilt == gpc \in {"templates", "inheritance", "discovering"} \/ gexit = 0
SchemaBuilt == gpc \in {"inheritance", "discovering"} \/ gexit = 0

\* The class declarations of the dump, and the declaration of a class.
ClassDecls ==
    {i \in 1..Len(content) : content[i].kind \in {"class", "abstract class"}}
DeclOf(n) == content[CHOOSE i \in ClassDecls : content[i].name = n]

\* The entries of the fields a template's own declaration lists (without
\* the lines every parser skips), in declaration order.
OwnEntries(t) ==
    Map(KeptFields(DeclOf(t).fields), LAMBDA f :
        FieldEntry(f, DOMAIN enums, DOMAIN structs, DOMAIN templates))

\* C8: for every template T of the schema whose recorded base P is a
\* template of the schema, the fields of T are the fields of P followed by
\* the fields T itself declares, in declaration order.
C8_FlattenedPrefix ==
    TemplatesBuilt =>
        \A t \in DOMAIN templates :
            templates[t].base_class \in DOMAIN templates =>
                templates[t].fields =
                    templates[templates[t].base_class].fields \o OwnEntries(t)

\* The names the template patterns recognise.
TemplateKind(n) == EndsWithTemplate(n) /\ n \notin UxmlNames

\* An abstract template-kind declaration p and a concrete template-kind
\* declaration c : p.
AbstractBasePairs ==
    {pair \in ClassDecls \X ClassDecls :
        /\ content[pair[1]].kind = "abstract class"
        /\ TemplateKind(content[pair[1]].name)
        /\ content[pair[2]].kind = "class"
        /\ TemplateKind(content[pair[2]].name)
        /\ content[pair[2]].base = content[pair[1]].name}

\* inheritance[c] runs root to leaf, ends with p, c, and each element is the
\* declared base of the next.
ChainEndsWith(p, c) ==
    /\ c \in DOMAIN inheritance
    /\ LET chain == inheritance[c]
       IN  /\ Len(chain) >= 2
           /\ chain[Len(chain)] = c
           /\ chain[Len(chain) - 1] = p
           /\ \A k \in 1..(Len(chain) - 1) :
                 /\ \E i \in ClassDecls : content[i].name = chain[k + 1]
                 /\ chain[k] = DeclOf(chain[k + 1]).base

\* C9: for an abstract template-kind P and a concrete template
\* C : P, the schema has P.is_abstract = true, C.is_abstract = false, and
\* inheritance[C] is root to leaf, ending with P, C.
C9_AbstractBaseAndChain ==
    SchemaBuilt =>
        \A pair \in AbstractBasePairs :
            LET p == content[pair[1]].name
                c == content[pair[2]].name
            IN  /\ p \in DOMAIN templates /\ templates[p].is_abstract
                /\ c \in DOMAIN templates /\ ~templates[c].is_abstract
                /\ ChainEndsWith(p, c)

\* The root sentinels of the hierarchy.
Sentinels == {"ScriptableObject", "SerializedScriptableObject"}

\* C10: every name of every inheritance chain is a template-kind name or a
\* root sentinel, and a template whose direct base is neither has no chain.
C10_ChainsOfTemplateKind ==
    SchemaBuilt =>
        /\ \A t \in DOMAIN inheritance :
              \A k \in 1..Len(inheritance[t]) :
                  TemplateKind(inheritance[t][k]) \/ inheritance[t][k] \in Sentinels
        /\ \A i \in ClassDecls :
              (/\ TemplateKind(content[i].name)
               /\ content[i].base # NoBase
               /\ ~TemplateKind(content[i].base)
               /\ content[i].base \notin Sentinels)
              => content[i].name \notin DOMAIN inheritance

(***************************************************************************)
(* Properties of embedded-class discovery.                                 *)
(***************************************************************************)
\* The schema of a dump was built and written.
Built == gpc = "done" /\ dump_exists

KnownTemplates == {template_names[i] : i \in 1..Len(template_names)}

\* The names discovery leaves alone.
Resolved == KnownTemplates \cup DOMAIN structs \cup DOMAIN enums \cup skip_types

\* The mapping discovery ends with when every pass of its loop takes one
\* fixed name of the work set.
RECURSIVE DiscoverInFixedOrder(_, _, _)
DiscoverInFixedOrder(work, taken, embedded) ==
    IF work = {} THEN embedded
    ELSE LET class_name == CHOOSE n \in work : TRUE
             class_info == parse_embedded_class(content, class_name)
             entry == EmbeddedEntry(class_info[1], DOMAIN enums, DOMAIN structs,
                                    KnownTemplates)
         IN  IF class_name \in taken \/ class_name \in skip_types
             THEN DiscoverInFixedOrder(work \ {class_name}, taken, embedded)
             ELSE IF class_info = <<>>
             THEN DiscoverInFixedOrder(work \ {class_name},
                                       taken \cup {class_name}, embedded)
             ELSE DiscoverInFixedOrder(
                      (work \ {class_name}) \cup
                          QueuedTypes(entry, taken \cup {class_name}, DOMAIN enums,
                                      DOMAIN structs, KnownTemplates),
                      taken \cup {class_name},
                      AddEntry(embedded, class_name, entry))

\* No name occurs twice in a sequence.
NoRepeat(seq) == \A i, j \in 1..Len(seq) : seq[i] = seq[j] => i = j

\* Every name the dump gives as the element of an array or of a list.
ElementNames ==
    UNION {{content[k].fields[i].type.elem :
               i \in {j \in 1..Len(content[k].fields) :
                         content[k].fields[j].type.form # "plain"}} :
              k \in 1..Len(content)}

\* A bound on the passes the loop of discovery has left: the names in the
\* work set, and for each name not taken yet every name it may add.
PassesLeft ==
    Cardinality(to_process)
        + (Cardinality(ElementNames) + 1) * Cardinality(ElementNames \ processed)

\* C15: embedded-class discovery ends for every dump, also when element
\* types refer to themselves or to each other: no class name is parsed
\* twice, every pass of the loop lowers the bound on the passes left, and
\* the loop ends when the work set is empty.
C15_DiscoveryTerminates ==
    [][gpc = "discovering" =>
          /\ NoRepeat(parse_calls')
          /\ IF to_process = {} THEN gpc' = "done"
             ELSE gpc' = "discovering" /\ PassesLeft' < PassesLeft]_vars

\* Discovery ended after it parsed three classes whose element types form
\* a cycle.
C15_Witness ==
    /\ Built
    /\ Len(parse_calls) = 3
    /\ {"HitInfo", "Modifier", "Effect"} \subseteq DOMAIN embedded_classes
    /\ \E i \in 1..Len(embedded_classes["HitInfo"].fields) :
           embedded_classes["HitInfo"].fields[i].element_type = "Modifier"
    /\ \E i \in 1..Len(embedded_classes["Modifier"].fields) :
           embedded_classes["Modifier"].fields[i].element_type = "Effect"
    /\ \E i \in 1..Len(embedded_classes["Effect"].fields) :
           embedded_classes["Effect"].fields[i].element_type = "HitInfo"

\* C11: the schema built from a dump is a function of the dump alone: the
\* enums, structs, templates and inheritance are those the parsers compute
\* from the text, and the embedded classes are the same mapping whatever
\* order the names were taken from the work set in.
C11_BuildDeterministic ==
    Built =>
        /\ enums = parse_all_enums(content)
        /\ structs = parse_all_structs(content)
        /\ templates = BuildTemplates(content, template_names,
                                      DOMAIN enums, DOMAIN structs)
        /\ inheritance = BuildInheritance(template_names, hierarchy)
        /\ embedded_classes =
              DiscoverInFixedOrder(
                  SeedTypes(templates, DOMAIN enums, DOMAIN structs, KnownTemplates),
                  {}, <<>>)

\* Two classes were in the work set from the start, and discovery took
\* Effect before HitInfo and recorded both.
C11_Witness ==
    /\ Built
    /\ {"HitInfo", "Effect"} \subseteq
          SeedTypes(templates, DOMAIN enums, DOMAIN structs, KnownTemplates)
    /\ Len(parse_calls) >= 2
    /\ parse_calls[1] = "Effect"
    /\ parse_calls[2] = "HitInfo"
    /\ {"HitInfo", "Effect"} \subseteq DOMAIN embedded_classes

\* The element types of the fields of the templates and of the embedded
\* classes of the schema.
SchemaElementTypes ==
    UNION {{templates[t].fields[i].element_type :
               i \in 1..Len(templates[t].fields)} : t \in DOMAIN templates}
    \cup UNION {{embedded_classes[c].fields[i].element_type :
                    i \in 1..Len(embedded_classes[c].fields)} :
                   c \in DOMAIN embedded_classes}

\* C16: when discovery has ended, every element type of a field of a
\* template or of an embedded class that is no known template, struct, enum
\* or skipped type and that parses as a plain class with a field is a key of
\* embedded_classes, and no key is a known template, struct, enum or
\* skipped type.
C16_EmbeddedFixedPoint ==
    Built =>
        /\ \A n \in SchemaElementTypes \ ({None} \cup Resolved) :
               parse_embedded_class(content, n) # <<>>
                   => n \in DOMAIN embedded_classes
        /\ DOMAIN embedded_classes \cap Resolved = {}

\* Modifier is the element type of no field of a template, only of a field
\* of HitInfo, and it was discovered; Sprite and the enum WeaponType are
\* element types of the template and were left alone.
C16_Witness ==
    /\ Built
    /\ "WeaponType" \in DOMAIN enums
    /\ "WeaponTemplate" \in DOMAIN templates
    /\ {"HitInfo", "Modifier"} \subseteq DOMAIN embedded_classes
    /\ {templates["WeaponTemplate"].fields[i].element_type :
           i \in 1..Len(templates["WeaponTemplate"].fields)}
         = {"HitInfo", "WeaponType"}
    /\ \E i \in 1..Len(embedded_classes["HitInfo"].fields) :
           embedded_classes["HitInfo"].fields[i].element_type = "Modifier"

\* The places <<declaration, line>> where the dump declares a field of a
\* name.
FieldPlaces(fname) ==
    {place \in (1..Len(content)) \X (1..MaxFields + 1) :
        /\ place[2] <= Len(content[place[1]].fields)
        /\ content[place[1]].fields[place[2]].name = fname}

\* C17: the walks along the base types end and visit no type twice, also
\* on cycles: no name occurs twice in an inheritance chain, and a field the
\* dump declares once, in one type, occurs at most once among the
\* flattened fields of a template.
C17_WalksVisitOnce ==
    /\ SchemaBuilt => \A t \in DOMAIN inheritance : NoRepeat(inheritance[t])
    /\ TemplatesBuilt =>
          \A t \in DOMAIN templates :
          \A k \in 1..Len(content) :
          \A i \in 1..Len(content[k].fields) :
              Cardinality(FieldPlaces(content[k].fields[i].name)) = 1 =>
                  Cardinality({j \in 1..Len(templates[t].fields) :
                      templates[t].fields[j].name = content[k].fields[i].name}) <= 1

(***************************************************************************)
(* Properties of the validator's handling of data files.                   *)
(***************************************************************************)
\* The run of the validator is over, by a return or by an exception.
Ended == CoverageDone /\ vpc \in {"done", "raised"}

\* The records of a level the naming check can write for a template.
NameRecords(tname, level) ==
    {<<level, tname \o ": Could not read JSON">>,
     <<level, tname \o ": Not a list">>,
     <<level, tname \o ": Empty file">>}
    \cup {<<level, tname \o ": " \o ToString(named) \o "/" \o ToString(total)
                  \o " named (" \o Percent0f(named, total) \o "%)">> :
             named \in 0..(MaxChecked + 1), total \in 1..(MaxChecked + 1)}

\* An instance of unexpected shape: not a mapping, or a mapping whose name is
\* neither a string nor null.
Misshapen(inst) ==
    \/ ~inst.isdict
    \/ /\ "name" \in DOMAIN inst.items
       /\ inst.items["name"].t \notin {"str", "NoneType"}

\* A malformed data file: unreadable or no valid JSON, not an array, or an
\* array with an instance of unexpected shape.
Malformed(file) ==
    \/ file.kind \in {"invalid", "object"}
    \/ \E i \in 1..Len(file.instances) : Misshapen(file.instances[i])

\* C12: a malformed data file never aborts the run: the run returns, the
\* naming check reports FAIL for the template of the malformed file, and
\* every other template with a data file has its naming record.
C12_MalformedFileIsLocal ==
    \A t \in found_types :
        (Ended /\ Malformed(data_dir[t])) =>
            /\ vpc = "done"
            /\ \E i \in 1..Len(name_results) :
                   name_results[i] \in NameRecords(t, "FAIL")
            /\ \A u \in found_types \ {t} :
                   \E i \in 1..Len(name_results) :
                       name_results[i] \in
                           UNION {NameRecords(u, l) : l \in {"PASS", "WARN", "FAIL"}}

(***************************************************************************)
(* Properties of classify_field.                                           *)
(***************************************************************************)
\* The call of classify_field has returned.
Classified == cpc = "done"

\* The category of the first rule a plain name matches, in the order
\* primitive, string, enum, struct, localized text, external asset, template
\* reference, reference by its initial, unknown; `by_initial` says whether
\* the name counts as a reference by its initial.
FirstRule(n, by_initial) ==
    IF n \in PRIMITIVE_TYPES THEN "primitive"
    ELSE IF n \in {"string", "String"} THEN "string"
    ELSE IF n \in known.enums THEN "enum"
    ELSE IF n \in known.structs THEN "struct"
    ELSE IF n \in LOCALIZATION_TYPES THEN "localization"
    ELSE IF n \in UNITY_ASSET_TYPES THEN "unity_asset"
    ELSE IF EndsWithTemplate(n) /\ n \in known.templates THEN "reference"
    ELSE IF by_initial THEN "reference"
    ELSE "unknown"

\* C13, as claimed: a plain name gets the category of the first matching
\* rule, every name with an upper-case initial counting as a reference.
C13_FirstRuleWins ==
    (Classified /\ declared_type.form = "plain") =>
        /\ classified.category =
              FirstRule(declared_type.elem, declared_type.elem \notin LowerInitial)
        /\ classified.element_type = None

\* C13, amended: a plain name gets the category of the first matching rule,
\* a name counting as a reference by its initial when the initial is
\* upper-case and the name contains no ".".
C13_FirstRuleWinsUndotted ==
    (Classified /\ declared_type.form = "plain") =>
        /\ classified.category =
              FirstRule(declared_type.elem,
                        /\ declared_type.elem \notin LowerInitial
                        /\ declared_type.elem \notin DottedNames)
        /\ classified.element_type = None

\* A name that is a known enum and a known struct was classified as enum.
C13_Witness ==
    /\ Classified
    /\ declared_type = Plain("WeaponType")
    /\ "WeaponType" \in known.enums \cap known.structs
    /\ classified.category = "enum"

\* C14: a declared type written T[] or List<T> is classified as a
\* collection with element type T, whatever kind of name T is.
C14_CollectionSyntax ==
    (Classified /\ declared_type.form \in {"array", "list"}) =>
        /\ classified.category = "collection"
        /\ classified.element_type = declared_type.elem

(***************************************************************************)
(* Properties of the template grain of the differ.                         *)
(***************************************************************************)
\* Entry i of the old list and entry j of the new list are the same field:
\* the same name, and as many entries of that name after them (the entries of
\* one name are paired from the end, as in FieldOffsetDiffers).
Corresponding(old_list, new_list, i, j) ==
    /\ old_list[i].name = new_list[j].name
    /\ Cardinality({k \in i..Len(old_list) : old_list[k].name = old_list[i].name})
         = Cardinality({k \in j..Len(new_list) : new_list[k].name = new_list[j].name})

\* The records under the CHG record of template name.
BlockOf(name) ==
    {p \in 1..Len(template_results) :
        \E c \in LevelAt(template_results, "CHG") :
            /\ template_results[c][2] = name \o ":"
            /\ c < p
            /\ \A q \in (c + 1)..p : template_results[q][1] # "CHG"}

\* The WARN records of the template grain that report a type change of fname.
FieldWarns(fname) ==
    {p \in LevelAt(template_results, "WARN") :
        \E a \in {"float", "int"}, b \in {"float", "int"} :
            template_results[p][2] =
                "  TYPE " \o fname \o ": " \o a \o " -> " \o b}

\* The two schemas differ at most in declared types of fields.
OnlyTypeEdits ==
    /\ old_schema.enums = new_schema.enums
    /\ old_schema.structs = new_schema.structs
    /\ DOMAIN old_schema.templates = DOMAIN new_schema.templates
    /\ \A t \in DOMAIN old_schema.templates :
          LET old_list == old_schema.templates[t].fields
              new_list == new_schema.templates[t].fields
          IN  /\ Len(old_list) = Len(new_list)
              /\ \A i \in 1..Len(old_list) :
                    /\ old_list[i].name = new_list[i].name
                    /\ old_list[i].offset = new_list[i].offset

\* C18: for a template of both schemas, a field of both lists with the same
\* offset and a different declared type yields exactly one WARN record for
\* that field under the template's CHG record and no CRIT record for it, and
\* a pair of schemas that differ only in such types exits with code 0.
C18_TypeChangeWarns ==
    Compared =>
        /\ \A t \in DOMAIN old_schema.templates \cap DOMAIN new_schema.templates :
              LET old_list == old_schema.templates[t].fields
                  new_list == new_schema.templates[t].fields
              IN  \A i \in 1..Len(old_list), j \in 1..Len(new_list) :
                      (/\ Corresponding(old_list, new_list, i, j)
                       /\ old_list[i].offset = new_list[j].offset
                       /\ old_list[i].type # new_list[j].type)
                      => /\ Cardinality(BlockOf(t)
                                \cap FieldWarns(old_list[i].name)) = 1
                         /\ BlockOf(t) \cap FieldCrits(old_list[i].name) = {}
        /\ OnlyTypeEdits => exit_code = 0

\* The (template, field name) pairs of the common templates of which some
\* entry has another offset than its corresponding entry in the new schema.
ChangedPairs ==
    {pair \in (DOMAIN old_schema.templates \cap DOMAIN new_schema.templates)
                \X {"Damage", "Range"} :
        LET old_list == old_schema.templates[pair[1]].fields
            new_list == new_schema.templates[pair[1]].fields
        IN  \E i \in 1..Len(old_list), j \in 1..Len(new_list) :
                /\ old_list[i].name = pair[2]
                /\ Corresponding(old_list, new_list, i, j)
                /\ old_list[i].offset # new_list[j].offset}

OffsetSummary(n) ==
    <<"CRIT", "*** " \o ToString(n)
              \o " OFFSET CHANGES - extraction code must be regenerated ***">>

\* The positions of the summary records of the template grain.
SummaryAt ==
    {p \in 1..Len(template_results) :
        \E n \in 0..(2 * MaxFields) : template_results[p] = OffsetSummary(n)}

\* C19: when diff_templates reports a field offset change, the first record
\* of its result is the one CRIT summary, its count is the number of
\* (template, field) pairs with a changed offset, and every per-field CRIT
\* record follows it; when no offset changed there is no summary record.
C19_OffsetSummaryFirst ==
    Compared =>
        /\ LevelAt(template_results, "CRIT") \ SummaryAt # {} =>
              /\ SummaryAt = {1}
              /\ template_results[1] = OffsetSummary(Cardinality(ChangedPairs))
              /\ \A p \in LevelAt(template_results, "CRIT") \ SummaryAt : p > 1
        /\ ChangedPairs = {} => SummaryAt = {}

(***************************************************************************)
(* Properties of the naming check.                                         *)
(***************************************************************************)
\* The naming check has run, to its end or to an exception.
NamingDone == CoverageDone /\ vpc # "coverage"

\* The instance is a mapping with a non-empty name that is no placeholder.
Named(inst) ==
    /\ inst.isdict
    /\ "name" \in DOMAIN inst.items
    /\ inst.items["name"] \notin {VNull, VStr("")}
    /\ inst.items["name"].s \notin {"unknown_0", "unknown_1"}

\* The texts the naming check can write for template tname, given its file.
NamingTexts(tname) ==
    LET total == Len(data_dir[tname].instances)
    IN  {tname \o ": Could not read JSON", tname \o ": Not a list",
         tname \o ": Empty file"}
        \cup {tname \o ": " \o ToString(n) \o "/" \o ToString(total)
                    \o " named (" \o Percent0f(n, total) \o "%)" :
                 n \in {m \in 0..total : total > 0}}

\* The levels of the records the naming check wrote for template tname, one
\* entry per record.
NamingLevels(tname) ==
    LET texts == NamingTexts(tname)
        at == SelectSeq([i \in 1..Len(name_results) |-> i], LAMBDA i :
                  name_results[i][2] \in texts)
    IN  [k \in 1..Len(at) |-> name_results[at[k]][1]]

\* C20: for a data file that holds an array the naming check emits exactly
\* one record for the template: WARN for the empty array, and otherwise PASS
\* iff every instance is named, WARN iff at least half but not all of them
\* are, and FAIL in every other case.
C20_NamingVerdict ==
    NamingDone =>
        \A t \in found_types :
            data_dir[t].kind = "list" =>
                LET total == Len(data_dir[t].instances)
                    named == Cardinality({i \in 1..total :
                                 Named(data_dir[t].instances[i])})
                IN  NamingLevels(t) =
                        <<IF total = 0 THEN "WARN"
                          ELSE IF named = total THEN "PASS"
                          ELSE IF 2 * named >= total THEN "WARN"
                          ELSE "FAIL">>

(***************************************************************************)
(* Properties of the field-coverage check.                                 *)
(***************************************************************************)
\* The field-coverage check has run.
FieldsDone == CoverageDone /\ vpc \in {"fields", "types", "done"}

\* The representative instance: the first one with a real name, or the
\* first instance when none has one.
Representative(instances) ==
    LET real == SelectSeq(instances, Named)
    IN  IF real # <<>> THEN real[1] ELSE instances[1]

\* The schema field names of the simple categories.
SimpleNames(tname) ==
    LET fields == schema.templates[tname].fields
    IN  {fields[i].name : i \in {j \in 1..Len(fields) :
            fields[j].category \notin
                {"collection", "unity_asset", "localization", "unknown"}}}

\* The levels of the PASS / WARN / FAIL records the field-coverage check
\* wrote for template tname, one entry per record.
CoverageLevels(tname) ==
    LET e == Cardinality(SimpleNames(tname))
        skipped == Len(schema.templates[tname].fields) - e
        texts == {tname \o ": " \o ToString(f) \o "/" \o ToString(e) \o " fields"
                        \o (IF skipped # 0
                            THEN " (" \o ToString(skipped) \o " complex skipped)"
                            ELSE "") : f \in 0..e}
        at == SelectSeq([i \in 1..Len(field_results) |-> i], LAMBDA i :
                  /\ field_results[i][1] # "INFO"
                  /\ field_results[i][2] \in texts)
    IN  [k \in 1..Len(at) |-> field_results[at[k]][1]]

\* C21: the field-coverage check compares the keys of the representative
\* instance (the first with a real name, else the first) with the schema
\* field names of the simple categories: with f of the e > 0 expected names
\* present the record is PASS iff f/e >= 90%, WARN iff 60% <= f/e < 90%, and
\* FAIL otherwise.
C21_FieldCoverageVerdict ==
    FieldsDone =>
        \A t \in found_types :
            (/\ data_dir[t].kind = "list"
             /\ data_dir[t].instances # <<>>
             /\ Representative(data_dir[t].instances).isdict
             /\ SimpleNames(t) # {}) =>
                LET rep == Representative(data_dir[t].instances)
                    e == Cardinality(SimpleNames(t))
                    f == Cardinality(SimpleNames(t) \cap DOMAIN rep.items)
                IN  CoverageLevels(t) =
                        <<IF 10 * f >= 9 * e THEN "PASS"
                          ELSE IF 10 * f >= 6 * e THEN "WARN"
                          ELSE "FAIL">>

(***************************************************************************)
(* Properties of the type validation.                                      *)
(***************************************************************************)
\* The value fails the check of the declared type, or the garbage-float
\* check.
Defect(ftype, val) ==
    \/ ftype \in CheckedTypes /\ ~TypeCheck(ftype, val)
    \/ /\ ftype \in GarbageChecked
       /\ IsNumber(val)
       /\ MagnitudeExceeds(val, GarbageExponent)

\* Instance i of the file of template tname records a defective value for a
\* schema field it holds.
DefectAt(tname, i) ==
    LET inst == data_dir[tname].instances[i]
        fields == schema.templates[tname].fields
    IN  /\ inst.isdict
        /\ \E k \in 1..Len(fields) :
              /\ fields[k].name \in DOMAIN inst.items
              /\ Defect(fields[k].type, inst.items[fields[k].name])

\* The positions of the FAIL records of the type validation for tname.
TypeFails(tname) ==
    {p \in LevelAt(type_results, "FAIL") :
        \E n \in 1..(6 * (MaxChecked + 1)) :
            type_results[p][2] = tname \o ": " \o ToString(n) \o " type errors"}

IntOutside(v, lo, hi) == v.t = "int" /\ ~(v.e = 0 /\ lo <= v.n /\ v.n <= hi)

\* One of the first 50 instances of the file of tname holds, for a field
\* declared with one of the types, a value that satisfies Bad.
Holds(tname, types, Bad(_)) ==
    LET file == data_dir[tname]
        fields == schema.templates[tname].fields
    IN  /\ file.kind = "list"
        /\ \E i \in 1..Len(file.instances) : \E k \in 1..Len(fields) :
              /\ i <= 50
              /\ file.instances[i].isdict
              /\ fields[k].type \in types
              /\ fields[k].name \in DOMAIN file.instances[i].items
              /\ Bad(file.instances[i].items[fields[k].name])

\* C23: type validation reports a byte / Byte value outside 0..255, a
\* short / Int16 value outside -32768..32767, and a non-boolean value of a
\* bool / Boolean field as type defects of the template.
C23_SmallIntegerRanges ==
    TypesDone =>
        \A t \in found_types :
            /\ Holds(t, {"byte", "Byte"}, LAMBDA v : IntOutside(v, 0, 255))
                  => TypeFails(t) # {}
            /\ Holds(t, {"short", "Int16"},
                     LAMBDA v : IntOutside(v, -32768, 32767))
                  => TypeFails(t) # {}
            /\ Holds(t, {"bool", "Boolean"}, LAMBDA v : v.t # "bool")
                  => TypeFails(t) # {}

(***************************************************************************)
(* Properties of the parsed fields.                                        *)
(***************************************************************************)
\* The instance (non-static) field lines of a declaration, in file order.
InstanceLines(decl) == SelectSeq(decl.fields, LAMBDA f : ~f.static)

\* The schema records a field of this name at offset 0x0 in the list.
KeptAtZero(fields, fname) ==
    \E i \in 1..Len(fields) : fields[i].name = fname /\ fields[i].offset = "0x0"

\* The first instance field of the declaration is at offset 0x0.
FirstAtZero(decl) ==
    /\ InstanceLines(decl) # <<>>
    /\ InstanceLines(decl)[1].offset = "0"
    /\ InstanceLines(decl)[1].name \notin InternalFieldNames

\* C24: an instance field at offset 0x0 that is the first field of a struct,
\* or of a class with no base, is kept in the schema, and a static member at
\* offset 0x0 is never kept.
C24_OffsetZeroKeptUnlessStatic ==
    TemplatesBuilt =>
        \A k \in 1..Len(content) :
            LET decl == content[k]
                isStruct == decl.kind = "struct" /\ decl.name \in DOMAIN structs
                isTemplate == /\ decl.kind \in {"class", "abstract class"}
                              /\ decl.name \in DOMAIN templates
            IN  /\ (isStruct /\ FirstAtZero(decl)) =>
                       KeptAtZero(structs[decl.name].fields,
                                  InstanceLines(decl)[1].name)
                /\ (isTemplate /\ decl.base = NoBase /\ FirstAtZero(decl)) =>
                       KeptAtZero(templates[decl.name].fields,
                                  InstanceLines(decl)[1].name)
                /\ \A i \in 1..Len(decl.fields) :
                       (decl.fields[i].static /\ decl.fields[i].offset = "0") =>
                           /\ isStruct =>
                                 ~KeptAtZero(structs[decl.name].fields,
                                             decl.fields[i].name)
                           /\ \A t \in DOMAIN templates :
                                 ~KeptAtZero(templates[t].fields,
                                             decl.fields[i].name)

(***************************************************************************)
(* Properties of flattening.                                               *)
(***************************************************************************)
Declares(n) == \E i \in ClassDecls : content[i].name = n

\* The base chain that starts at class n comes back to a class it passed.
RECURSIVE CyclicFrom(_, _)
CyclicFrom(n, seen) ==
    IF ~Declares(n) \/ n \in stop_bases THEN FALSE
    ELSE IF n \in seen THEN TRUE
    ELSE CyclicFrom(DeclOf(n).base, seen \cup {n})

\* The concatenation, root first, of the field lists the classes on the base
\* chain of n declare themselves (without the lines every parser skips); the
\* chain ends at a class with no base, at a stop base and at an undeclared
\* name.
RECURSIVE DeclaredFields(_)
DeclaredFields(n) ==
    IF ~Declares(n) THEN <<>>
    ELSE (IF DeclOf(n).base # NoBase /\ DeclOf(n).base \notin stop_bases
          THEN DeclaredFields(DeclOf(n).base) ELSE <<>>)
         \o KeptFields(DeclOf(n).fields)

\* C25: for an acyclic base chain the flattened fields of a template are the
\* concatenation, root first, of the own field lists of the classes on its
\* chain: no entry is dropped, merged or moved, so fields that share an
\* offset are both kept and a derived field that repeats the name of a base
\* field gives two entries of that name, the base's first.
C25_FlatteningIsConcatenation ==
    TemplatesBuilt =>
        \A t \in DOMAIN templates :
            ~CyclicFrom(t, {}) =>
                templates[t].fields =
                    Map(DeclaredFields(t), LAMBDA f :
                        FieldEntry(f, DOMAIN enums, DOMAIN structs,
                                   KnownTemplates))

(***************************************************************************)
(* Properties of parse failures.                                           *)
(***************************************************************************)
\* The body of the declared class n cannot be located.
Unlocatable(n) == Declares(n) /\ parse_class_from_dump(content, n) = <<>>

\* The dump in which every class whose body cannot be located is declared
\* with a body of no fields instead.
WithoutFields ==
    [k \in 1..Len(content) |->
        IF k \in ClassDecls /\ Unlocatable(content[k].name)
        THEN Decl(content[k].kind, content[k].name, content[k].base, "100",
                  FALSE, <<>>, <<>>)
        ELSE content[k]]

\* C26: a class whose body cannot be located does not stop the build: the
\* run ends with success, the class is absent from templates, and the entry
\* of every other template is the one it would have if the class had been
\* declared with no fields.
C26_ParseFailureIsLocal ==
    /\ (gpc = "done" /\ dump_exists) => gexit = 0
    /\ TemplatesBuilt =>
          /\ \A k \in ClassDecls :
                Unlocatable(content[k].name) => content[k].name \notin DOMAIN templates
          /\ \A t \in DOMAIN templates :
                templates[t] =
                    BuildTemplates(WithoutFields, template_names,
                                   DOMAIN enums, DOMAIN structs)[t]

\* C27: in every built schema every key of inheritance is a key of
\* templates, and inheritance[T] ends with T.
C27_ChainsOnlyForTemplates ==
    SchemaBuilt =>
        /\ DOMAIN inheritance \subseteq DOMAIN templates
        /\ \A t \in DOMAIN inheritance :
              /\ inheritance[t] # <<>>
              /\ inheritance[t][Len(inheritance[t])] = t

\* C28: for the two field lists of a common template, repeated names
\* included, an entry whose offset differs from the offset of its
\* corresponding entry of the same name in the new schema gives a CRIT
\* record for that field name under the template.
C28_EveryOffsetChangeIsCritical ==
    Compared =>
        \A t \in DOMAIN old_schema.templates \cap DOMAIN new_schema.templates :
            LET old_list == old_schema.templates[t].fields
                new_list == new_schema.templates[t].fields
            IN  \A i \in 1..Len(old_list), j \in 1..Len(new_list) :
                    (/\ Corresponding(old_list, new_list, i, j)
                     /\ old_list[i].offset # new_list[j].offset)
                    => BlockOf(t) \cap FieldCrits(old_list[i].name) # {}

(***************************************************************************)
(* Properties of the menu builder.                                         *)
(***************************************************************************)
\* The template types whose loaded file holds an object of that name.
TypesHolding(name) ==
    {t \in DOMAIN templates_by_type :
        \E k \in 1..Len(templates_by_type[t]) :
            templates_by_type[t][k].isdict /\ templates_by_type[t][k].name = name}

\* The type a recorded path was placed under: the last key of the chain.
PlacedUnder(name) ==
    placement_map[name][Len(placement_map[name]) - Len(build_name_path(name))]

\* The recorded path of the name holds a leaf of that name with the data of
\* an instance of that name.
LeafAtRecordedPath(name) ==
    LET path == placement_map[name]
    IN  /\ path \in DOMAIN menu
        /\ menu[path].leaf
        /\ menu[path].name = name
        /\ menu[path].template_type \in TypesHolding(name)
        /\ path = LeafPath(menu[path].template_type, name)
        /\ \E k \in 1..Len(templates_by_type[menu[path].template_type]) :
              templates_by_type[menu[path].template_type][k] = menu[path].data

\* Nothing was placed inside the leaf of the name.
NothingInside(name) ==
    \A q \in DOMAIN menu : IsPrefixOf(placement_map[name], q) => q = placement_map[name]

\* The name was placed under a type of longest chain among those holding it.
UnderLongestChain(name) ==
    /\ PlacedUnder(name) \in TypesHolding(name)
    /\ \A u \in TypesHolding(name) :
          Len(menu_chain(PlacedUnder(name))) >= Len(menu_chain(u))

\* C29: when the builder has saved the menu, every name recorded as placed
\* is a leaf of the menu at its recorded path (the inheritance chain, then
\* the parts of the name) with its own data, no placement has overwritten
\* that leaf or put anything inside it, and the name lies under the type of
\* longest inheritance chain among the types it occurs under.
C29_EveryPlacedNameIsALeaf ==
    mpc = "done" =>
        \A name \in DOMAIN placement_map :
            /\ LeafAtRecordedPath(name)
            /\ NothingInside(name)
            /\ UnderLongestChain(name)

(***************************************************************************)
(* Properties of the string scraper.                                       *)
(***************************************************************************)
\* The run starts the strings process and the process does not end in time.
TimedOut ==
    /\ Len(argv) >= 1
    /\ find_resources_assets(assets_at) # None
    /\ strings_run.ends = "timeout"

\* C30: a run whose strings process is still running when the time allowed
\* is over ends with the failure TimeoutExpired, which no other run
\* reports, and with a non-zero status, and writes no output file; a run
\* that has written output files has taken them from the whole output of a
\* process that ended.
C30_TimeoutIsADistinctFailure ==
    /\ (spc = "done" /\ TimedOut) =>
           /\ failure = "TimeoutExpired"
           /\ sexit > 0
           /\ DOMAIN output_files = {}
    /\ failure = "TimeoutExpired" => TimedOut
    /\ DOMAIN output_files # {} =>
           /\ strings_run.ends = "exit"
           /\ all_strings = strings_run.stdout
           /\ output_files = WrittenFiles(strings_run.stdout)

\* A run that timed out after the process had printed lines has ended.
C30_Witness ==
    /\ spc = "done"
    /\ TimedOut
    /\ strings_run.stdout # <<>>
    /\ failure = "TimeoutExpired"
    /\ sexit = 1

====
